---- MODULE Spec2Model ----
(***************************************************************************)
(* A small-step model of the line-oriented script interpreter of           *)
(* src/python.py (class Interpreter).                                      *)
(*                                                                         *)
(* The Python call stack is the sequence `frames`; every frame is one      *)
(* activation of interpret / execute_for / execute_if / execute_while /    *)
(* execute_def_call / execute_load.  A raised Python exception is the      *)
(* record `exc`; it is handed from frame to frame, each frame applying the *)
(* except/finally clauses its function has.  Python objects that are       *)
(* shared by reference live in stores: scope dicts in `dicts`, list        *)
(* objects in `heap`, ClassDefinition.functions dicts in `tables`.         *)
(***************************************************************************)
EXTENDS Integers, Sequences, FiniteSets, TLC

VARIABLES
    variables,   \* self.variables: the stack of scopes, as ids into dicts
    dicts,       \* the scope dict objects, by id (1 is self.global_variables)
    heap,        \* the list objects created by ARR --create, by id
    written,     \* history: per list object, the slots ARR --set_data has written
    functions,   \* self.functions: the global function table
    tables,      \* the ClassDefinition.functions dict objects, by id
    frames,      \* the Python call stack
    exc,         \* the exception in flight (kind "none": none)
    files,       \* the class files on disk, by path
    status       \* "running", "done" (interpret returned), "failed" (it raised)

vars == <<variables, dicts, heap, written, functions, tables, frames, exc, files, status>>

(***************************************************************************)
(* Bounds of the explored scripts.                                         *)
(***************************************************************************)
MaxArgs == 3        \* DEF --call / LOAD are tried with 0..MaxArgs --input flags
MaxParams == 2      \* DEF --create is tried with 0..MaxParams parameters
MaxArr == 3         \* ARR --create sizes 1..MaxArr
MaxEnd == 2         \* FOR loops run from 1 to at most MaxEnd
MaxVisited == MaxEnd + 3
MaxInputs == 3      \* arithmetic reductions are tried with 1..MaxInputs --input flags

(***************************************************************************)
(* Python values.  k is the Python type of the value: "int", "float"       *)
(* (the rational n/d), "str" (text s; d = 1 iff int(s) succeeds, and then  *)
(* n is that integer), "list" (n is the id of the list object in heap),    *)
(* "none" (None).                                                          *)
(***************************************************************************)
IntV(n) == [k |-> "int", n |-> n, d |-> 1, s |-> ""]
FloatV(n, d) == [k |-> "float", n |-> n, d |-> d, s |-> ""]
StrV(s) == [k |-> "str", n |-> 0, d |-> 0, s |-> s]
NumStrV(n) == [k |-> "str", n |-> n, d |-> 1, s |-> ToString(n)]
ListV(id) == [k |-> "list", n |-> id, d |-> 1, s |-> ""]
NoneV == [k |-> "none", n |-> 0, d |-> 1, s |-> ""]

IsNumber(v) == v.k \in {"int", "float"}

\* class Variable: type is the declared type, value a Python value.
Variable(var_type, value) == [type |-> var_type, value |-> value]

\* The empty dict {}.
EmptyDict == [x \in {} |-> Variable("int", NoneV)]

DictSet(dict, name, var) == [x \in (DOMAIN dict) \cup {name} |->
                                IF x = name THEN var ELSE dict[x]]
DictDel(dict, name) == [x \in (DOMAIN dict) \ {name} |-> dict[x]]

\* A Python exception object.  kind is its class, msg the error it reports,
\* value the value a FunctionReturn carries, tags the "Line N: " prefixes
\* (outermost first), wrapped whether execute_load has prefixed its
\* "Error executing class" text, nest the kinds of the open execute_* frames
\* at the raise (outermost first), stmt the opcode that raised.
NoExc == [kind |-> "none", msg |-> "", value |-> NoneV, tags |-> <<>>,
          wrapped |-> FALSE, nest |-> <<>>, stmt |-> ""]

(***************************************************************************)
(* Script text.  A script is a sequence of lines; a line is the text of    *)
(* one instruction, kept as its opcode and the words of its flags.  A word *)
(* that stands where a number may stand is a token: its text t, whether    *)
(* int(t) succeeds, and the integer n it then gives.                       *)
(***************************************************************************)
Num(n) == [t |-> ToString(n), isInt |-> TRUE, n |-> n]
Word(t) == [t |-> t, isInt |-> FALSE, n |-> 0]
Cond(l, o, r) == [l |-> l, o |-> o, r |-> r]

LVar(type, name, tok) == [op |-> "VAR", type |-> type, name |-> name, hasSet |-> TRUE, set |-> tok]
LVarDefault(type, name) == [op |-> "VAR", type |-> type, name |-> name, hasSet |-> FALSE, set |-> Word("")]
LSum(inputs, output) == [op |-> "SUM", inputs |-> inputs, output |-> output]
LSubtract(inputs, output) == [op |-> "SUBTRACT", inputs |-> inputs, output |-> output]
LMultiply(inputs, output) == [op |-> "MULTIPLY", inputs |-> inputs, output |-> output]
LDivide(inputs, output) == [op |-> "DIVIDE", inputs |-> inputs, output |-> output]
LRelease(name) == [op |-> "MEM_RELEASE", name |-> name]
LArrCreate(name, max) == [op |-> "ARR_CREATE", name |-> name, max |-> max]
LArrSet(name, variable, pos) == [op |-> "ARR_SET_DATA", name |-> name, variable |-> variable, pos |-> pos]
LArrGet(name, index, save) == [op |-> "ARR_GET_DATA", name |-> name, index |-> index, save |-> save]
LDefCreate(name_def, inputs) == [op |-> "DEF_CREATE", name_def |-> name_def, inputs |-> inputs]
LDefCall(name_def, inputs, save) == [op |-> "DEF_CALL", name_def |-> name_def, inputs |-> inputs, save |-> save]
LReturn(var) == [op |-> "RETURN", var |-> var]
LFor(var, start, end, step) == [op |-> "FOR", var |-> var, start |-> start, end |-> end, step |-> step]
LIf(condition) == [op |-> "IF", condition |-> condition]
LWhile(condition) == [op |-> "WHILE", condition |-> condition]
LElse == [op |-> "ELSE"]
LEnd == [op |-> "END"]
LLoad(path, inputs, saves) == [op |-> "LOAD", path |-> path, inputs |-> inputs, saves |-> saves]

\* The line followed by a trailing comment: "text # note".
Commented(line) ==
    [f \in DOMAIN line \cup {"comment"} |-> IF f = "comment" THEN TRUE ELSE line[f]]
HasComment(line) == "comment" \in DOMAIN line

\* line.split('#')[0].strip()
Strip(line) == [f \in DOMAIN line \ {"comment"} |-> line[f]]

\* The text of a token matches \w+ (a negative number starts with "-").
IsWord(tok) == ~(tok.isInt /\ tok.n < 0)

\* The keys of command_patterns that scripts here use.
Instructions ==
    {"VAR", "SUM", "SUBTRACT", "MULTIPLY", "DIVIDE", "FOR", "IF", "ELSE", "WHILE", "END",
     "MEM_RELEASE", "DEF_CREATE", "DEF_CALL", "RETURN", "ARR_CREATE", "ARR_SET_DATA",
     "ARR_GET_DATA", "LOAD"}

\* The line matches the pattern of its instruction in command_patterns.
Matches(line) ==
    /\ line.op \in Instructions
    /\ line.op = "FOR" => IsWord(line.start) /\ IsWord(line.end) /\ IsWord(line.step)

\* What match.groupdict() holds for a repeated group (?:... (?P<g>\w+))*:
\* None when the flag does not occur, else (after re.findall) the list.
Group(items) == [isNone |-> items = <<>>, items |-> items]

\* parse_line: the opcode and the argument map of a line.
parse_line(line) ==
    LET text == Strip(line)
    IN  IF text.op \in {"DEF_CREATE", "DEF_CALL"}
        THEN [text EXCEPT !.inputs = Group(@)]
        ELSE IF text.op = "LOAD"
        THEN [text EXCEPT !.inputs = Group(@), !.saves = Group(@)]
        ELSE text

(***************************************************************************)
(* The environment.                                                        *)
(***************************************************************************)
RECURSIVE FindScope(_, _, _, _)
FindScope(ds, scopes, name, k) ==
    IF k = 0 THEN 0
    ELSE IF name \in DOMAIN ds[scopes[k]] THEN scopes[k]
    ELSE FindScope(ds, scopes, name, k - 1)

\* get_variable: the id of the innermost scope of `scopes` that binds name
\* (the variable is then ds[id][name]); 0 stands for the result None.
get_variable(ds, scopes, name) == FindScope(ds, scopes, name, Len(scopes))

\* set_variable: self.variables[-1][var.name] = var.  On an empty stack
\* the subscript raises IndexError.
set_variable(ds, stack, name, var) ==
    IF stack = <<>> THEN [err |-> "IndexError", dicts |-> ds]
    ELSE [err |-> "", dicts |-> [ds EXCEPT ![stack[Len(stack)]] = DictSet(@, name, var)]]

(***************************************************************************)
(* Python arithmetic on int and float values (floats as exact rationals).  *)
(***************************************************************************)
Abs(n) == IF n < 0 THEN -n ELSE n

RECURSIVE Gcd(_, _)
Gcd(a, b) == IF b = 0 THEN a ELSE Gcd(b, a % b)

Rat(k, n, d) ==
    LET g == Gcd(Abs(n), d)
    IN  IF k = "int" THEN IntV(n \div d)
        ELSE IF g = 0 THEN FloatV(0, 1) ELSE FloatV(n \div g, d \div g)

JoinKind(x, y) == IF x.k = "int" /\ y.k = "int" THEN "int" ELSE "float"

Add(x, y) == Rat(JoinKind(x, y), x.n * y.d + y.n * x.d, x.d * y.d)

\* x - y, x * y
Sub(x, y) == Rat(JoinKind(x, y), x.n * y.d - y.n * x.d, x.d * y.d)
Mul(x, y) == Rat(JoinKind(x, y), x.n * y.n, x.d * y.d)
\* x // y: floor division
Div_floor(x, y) == IF y.n > 0 THEN FloatV((x.n * y.d) \div (x.d * y.n), 1)
                   ELSE FloatV((-(x.n * y.d)) \div (x.d * (-y.n)), 1)

\* x / y: true division, always a float
Div(x, y) == IF y.n > 0 THEN Rat("float", x.n * y.d, x.d * y.n)
             ELSE Rat("float", -(x.n * y.d), x.d * (-y.n))

\* x < y, x = y for numbers
NumLess(x, y) == x.n * y.d < y.n * x.d
NumEq(x, y) == x.n * y.d = y.n * x.d

\* int(x) of a number: truncation toward zero.
Trunc(x) == IF x.n >= 0 THEN x.n \div x.d ELSE -((-x.n) \div x.d)

\* _get_numeric_value without the test of the declared type.
get_numeric_value_untyped(ds, id, name) ==
    IF id = 0 THEN [err |-> "InterpreterError", msg |-> "not defined"]
    ELSE [err |-> "", msg |-> ""]

\* _get_numeric_value: the checks on one operand.
get_numeric_value(ds, id, name) ==
    IF id = 0 THEN [err |-> "InterpreterError", msg |-> "not defined"]
    ELSE IF ds[id][name].type \notin {"int", "float"}
    THEN [err |-> "InterpreterError", msg |-> "not a number"]
    ELSE [err |-> "", msg |-> ""]

(***************************************************************************)
(* The single-line instructions.  Each operator gives what the execute_*   *)
(* method does to the scope dicts and the list objects, or the exception   *)
(* it raises: [err, msg, dicts, heap, written], err = "" on success.       *)
(***************************************************************************)
Done(ds, hp, wr) == [err |-> "", msg |-> "", dicts |-> ds, heap |-> hp, written |-> wr]
Fail(kind, msg) == [err |-> kind, msg |-> msg, dicts |-> dicts, heap |-> heap, written |-> written]

\* set_variable as the last step of an instruction.
Bind(name, var, hp, wr) ==
    LET r == set_variable(dicts, variables, name, var)
    IN  IF r.err # "" THEN Fail(r.err, "set_variable") ELSE Done(r.dicts, hp, wr)

execute_var(args) ==
    LET bad == args.hasSet /\ ~args.set.isInt
        value == IF args.type = "int"
                 THEN (IF args.hasSet THEN IntV(args.set.n) ELSE IntV(0))
                 ELSE IF args.type = "float"
                 THEN (IF args.hasSet THEN FloatV(args.set.n, 1) ELSE FloatV(0, 1))
                 ELSE IF ~args.hasSet THEN StrV("")
                 ELSE IF args.set.isInt THEN NumStrV(args.set.n)
                 ELSE StrV(args.set.t)
    IN  IF args.type \notin {"int", "float", "str"}
        THEN Fail("InterpreterError", "unsupported type")
        ELSE IF args.type \in {"int", "float"} /\ bad
        THEN Fail("InterpreterError", "invalid value")
        ELSE Bind(args.name, Variable(args.type, value), heap, written)

execute_mem_release(args) ==
    LET id == get_variable(dicts, variables, args.name)
    IN  IF id = 0 THEN Fail("InterpreterError", "not found")
        ELSE Done([dicts EXCEPT ![id] = DictDel(@, args.name)], heap, written)

\* _assign_output: the destination of an arithmetic reduction.
assign_output(name, value) ==
    LET found == get_variable(dicts, variables, name)
        made == set_variable(dicts, variables, name, Variable("int", NoneV))
        ds == IF found = 0 THEN made.dicts ELSE dicts
        id == IF found = 0 THEN variables[Len(variables)] ELSE found
        type == ds[id][name].type
        cast == IF type = "int" THEN IntV(Trunc(value)) ELSE FloatV(value.n, value.d)
    IN  IF found = 0 /\ made.err # "" THEN Fail(made.err, "set_variable")
        ELSE IF type \notin {"int", "float"}
        THEN Fail("InterpreterError", "output not a number")
        ELSE Done([ds EXCEPT ![id][name].value = cast], heap, written)

\* The loop of execute_sum over inputs[k..]: total += value of each.
RECURSIVE SumFrom(_, _, _)
SumFrom(inputs, k, total) ==
    IF k > Len(inputs) THEN [err |-> "", msg |-> "", total |-> total]
    ELSE LET id == get_variable(dicts, variables, inputs[k])
             chk == get_numeric_value(dicts, id, inputs[k])
         IN  IF chk.err # "" THEN [err |-> chk.err, msg |-> chk.msg, total |-> total]
             ELSE IF ~IsNumber(dicts[id][inputs[k]].value)
             THEN [err |-> "TypeError", msg |-> "operand", total |-> total]
             ELSE SumFrom(inputs, k + 1, Add(total, dicts[id][inputs[k]].value))

execute_sum(args) ==
    LET r == SumFrom(args.inputs, 1, IntV(0))
    IN  IF Len(args.inputs) < 2 THEN Fail("InterpreterError", "two inputs")
        ELSE IF r.err # "" THEN Fail(r.err, r.msg)
        ELSE assign_output(args.output, r.total)

\* The loops of execute_subtract, execute_multiply and execute_divide over
\* inputs[k..]: result -= value, result *= value, result /= value (after the
\* test value == 0).
RECURSIVE FoldFrom(_, _, _, _)
FoldFrom(command, inputs, k, result) ==
    IF k > Len(inputs) THEN [err |-> "", msg |-> "", result |-> result]
    ELSE LET id == get_variable(dicts, variables, inputs[k])
             chk == get_numeric_value(dicts, id, inputs[k])
             value == dicts[id][inputs[k]].value
         IN  IF chk.err # "" THEN [err |-> chk.err, msg |-> chk.msg, result |-> result]
             ELSE IF ~IsNumber(value)
             THEN [err |-> "TypeError", msg |-> "operand", result |-> result]
             ELSE IF command = "DIVIDE" /\ value.n = 0
             THEN [err |-> "InterpreterError", msg |-> "division by zero", result |-> result]
             ELSE FoldFrom(command, inputs, k + 1,
                           CASE command = "SUBTRACT" -> Sub(result, value)
                             [] command = "MULTIPLY" -> Mul(result, value)
                             [] command = "DIVIDE" -> Div(result, value))

\* result = value of inputs[0], then the loop over inputs[1:].
FoldFromFirst(command, inputs) ==
    LET id == get_variable(dicts, variables, inputs[1])
        chk == get_numeric_value(dicts, id, inputs[1])
    IN  IF chk.err # "" THEN [err |-> chk.err, msg |-> chk.msg, result |-> NoneV]
        ELSE FoldFrom(command, inputs, 2, dicts[id][inputs[1]].value)

execute_subtract(args) ==
    LET r == FoldFromFirst("SUBTRACT", args.inputs)
    IN  IF Len(args.inputs) < 2 THEN Fail("InterpreterError", "two inputs")
        ELSE IF r.err # "" THEN Fail(r.err, r.msg)
        ELSE IF ~IsNumber(r.result) THEN Fail("TypeError", "operand")
        ELSE assign_output(args.output, r.result)

execute_multiply(args) ==
    LET r == FoldFrom("MULTIPLY", args.inputs, 1, IntV(1))
    IN  IF Len(args.inputs) < 2 THEN Fail("InterpreterError", "two inputs")
        ELSE IF r.err # "" THEN Fail(r.err, r.msg)
        ELSE assign_output(args.output, r.result)

\* execute_divide without the test value == 0: the quotient by zero is taken
\* to be zero.
execute_divide_unchecked(args) ==
    LET nonzero == SelectSeq(args.inputs,
                       LAMBDA name : LET id == get_variable(dicts, variables, name)
                                     IN  id = 0 \/ dicts[id][name].value.n # 0)
        r == FoldFromFirst("DIVIDE", IF Len(nonzero) = 0 THEN args.inputs ELSE nonzero)
    IN  IF Len(args.inputs) < 2 THEN Fail("InterpreterError", "two inputs")
        ELSE IF Len(nonzero) < Len(args.inputs) /\ r.err = ""
        THEN assign_output(args.output, IntV(0))
        ELSE IF r.err # "" THEN Fail(r.err, r.msg)
        ELSE assign_output(args.output, r.result)

execute_divide(args) ==
    LET r == FoldFromFirst("DIVIDE", args.inputs)
    IN  IF Len(args.inputs) < 2 THEN Fail("InterpreterError", "two inputs")
        ELSE IF r.err # "" THEN Fail(r.err, r.msg)
        ELSE IF ~IsNumber(r.result) THEN Fail("TypeError", "operand")
        ELSE assign_output(args.output, r.result)

execute_array_create(args) ==
    IF args.max <= 0 THEN Fail("InterpreterError", "size")
    ELSE Bind(args.name, Variable("array", ListV(Len(heap) + 1)),
              Append(heap, [j \in 1..args.max |-> IntV(0)]),
              Append(written, {}))

\* execute_array_set_data on a list that grows: a write at the position just
\* past the end appends the value.
execute_array_set_data_growing(args) ==
    LET aid == get_variable(dicts, variables, args.name)
        arr == dicts[aid][args.name]
        did == get_variable(dicts, variables, args.variable)
    IN  IF aid = 0 THEN Fail("InterpreterError", "no array")
        ELSE IF arr.type # "array" THEN Fail("InterpreterError", "no array")
        ELSE IF did = 0 THEN Fail("InterpreterError", "not defined")
        ELSE IF args.pos >= Len(heap[arr.value.n])
        THEN Done(dicts,
                  [heap EXCEPT ![arr.value.n] = Append(@, dicts[did][args.variable].value)],
                  written)
        ELSE Done(dicts,
                  [heap EXCEPT ![arr.value.n][args.pos + 1] = dicts[did][args.variable].value],
                  [written EXCEPT ![arr.value.n] = @ \cup {args.pos}])

execute_array_set_data(args) ==
    LET aid == get_variable(dicts, variables, args.name)
        arr == dicts[aid][args.name]
        did == get_variable(dicts, variables, args.variable)
    IN  IF aid = 0 THEN Fail("InterpreterError", "no array")
        ELSE IF arr.type # "array" THEN Fail("InterpreterError", "no array")
        ELSE IF arr.value.k # "list" THEN Fail("TypeError", "len")
        ELSE IF args.pos < 0 \/ args.pos >= Len(heap[arr.value.n])
        THEN Fail("InterpreterError", "out of range")
        ELSE IF did = 0 THEN Fail("InterpreterError", "not defined")
        ELSE Done(dicts,
                  [heap EXCEPT ![arr.value.n][args.pos + 1] = dicts[did][args.variable].value],
                  [written EXCEPT ![arr.value.n] = @ \cup {args.pos}])

execute_array_get_data(args) ==
    LET aid == get_variable(dicts, variables, args.name)
        arr == dicts[aid][args.name]
        data == heap[arr.value.n][args.index + 1]
    IN  IF aid = 0 THEN Fail("InterpreterError", "no array")
        ELSE IF arr.type # "array" THEN Fail("InterpreterError", "no array")
        ELSE IF arr.value.k # "list" THEN Fail("TypeError", "len")
        ELSE IF args.index < 0 \/ args.index >= Len(heap[arr.value.n])
        THEN Fail("InterpreterError", "out of range")
        ELSE IF data.k = "none" THEN Fail("InterpreterError", "no value")
        ELSE Bind(args.save, Variable("auto", data), heap, written)

(***************************************************************************)
(* evaluate_condition, for a condition of the form  left op right.         *)
(***************************************************************************)
\* The operand a token becomes in eval_str: a value, or the error raised.
Operand(tok) ==
    LET id == get_variable(dicts, variables, tok.t)
        var == dicts[id][tok.t]
    IN  IF id = 0
        THEN [err |-> "", v |-> IF tok.isInt THEN IntV(tok.n) ELSE StrV(tok.t)]
        ELSE IF var.type \in {"int", "float"} THEN
            \* str(var.value) is pasted in: a str value becomes a bare name
            (IF var.value.k = "str" /\ var.value.d = 0
             THEN [err |-> "invalid condition", v |-> NoneV]
             ELSE IF var.value.k = "str" THEN [err |-> "", v |-> IntV(var.value.n)]
             ELSE IF var.value.k = "list" THEN [err |-> "", v |-> var.value]
             ELSE [err |-> "", v |-> var.value])
        ELSE IF var.type = "str" THEN [err |-> "", v |-> var.value]
        ELSE [err |-> "unsupported type in condition", v |-> NoneV]

\* Python's comparison of the two operands; "TypeError" when it raises.
Compare(x, o, y) ==
    IF IsNumber(x) /\ IsNumber(y) THEN
        [err |-> "", val |-> CASE o = "==" -> NumEq(x, y)
                               [] o = "!=" -> ~NumEq(x, y)
                               [] o = "<" -> NumLess(x, y)
                               [] o = "<=" -> ~NumLess(y, x)
                               [] o = ">" -> NumLess(y, x)
                               [] o = ">=" -> ~NumLess(x, y)]
    ELSE IF o \in {"==", "!="} THEN
        [err |-> "", val |-> IF x.k = y.k /\ x.k = "str" THEN (x.s = y.s) <=> (o = "==")
                             ELSE IF x.k = y.k /\ x.k = "none" THEN o = "=="
                             ELSE o = "!="]
    ELSE IF x.k = "str" /\ y.k = "str" /\ x.s = y.s
    THEN [err |-> "", val |-> o \in {"<=", ">="}]
    ELSE [err |-> "invalid condition", val |-> FALSE]

evaluate_condition(c) ==
    LET l == Operand(c.l)
        r == Operand(c.r)
        res == Compare(l.v, c.o, r.v)
    IN  IF l.err # "" THEN [err |-> l.err, val |-> FALSE]
        ELSE IF r.err # "" THEN [err |-> r.err, val |-> FALSE]
        ELSE res

(***************************************************************************)
(* The block scan of interpret: from the line after an opener, collect the *)
(* body up to the END that takes the nesting counter to 0.                 *)
(***************************************************************************)
\* The scan applies re.match to the line as it stands, comment included: the
\* patterns of FOR, DEF --create, END and ELSE end in $ and do not match a
\* line with a trailing comment; those of IF and WHILE take it into (.+).
MatchesOpener(ln) ==
    /\ ln.op \in {"FOR", "IF", "WHILE", "DEF_CREATE"}
    /\ Matches(ln)
    /\ HasComment(ln) => ln.op \in {"IF", "WHILE"}
MatchesEnd(ln) == ln.op = "END" /\ ~HasComment(ln)
MatchesElse(ln) == ln.op = "ELSE" /\ ~HasComment(ln)

RECURSIVE ScanElse(_, _, _, _)
ScanElse(lines, i, nested, acc) ==
    IF i > Len(lines) THEN [else_commands |-> acc, i |-> i]
    ELSE IF MatchesOpener(lines[i]) THEN ScanElse(lines, i + 1, nested + 1, Append(acc, lines[i]))
    ELSE IF MatchesEnd(lines[i]) /\ nested = 1 THEN [else_commands |-> acc, i |-> i]
    ELSE IF MatchesEnd(lines[i]) THEN ScanElse(lines, i + 1, nested - 1, Append(acc, lines[i]))
    ELSE ScanElse(lines, i + 1, nested, Append(acc, lines[i]))

RECURSIVE ScanBlock(_, _, _, _, _)
ScanBlock(lines, command, i, nested, acc) ==
    IF i > Len(lines) THEN [block_commands |-> acc, else_commands |-> <<>>, i |-> i]
    ELSE IF MatchesOpener(lines[i]) THEN ScanBlock(lines, command, i + 1, nested + 1, Append(acc, lines[i]))
    ELSE IF MatchesEnd(lines[i]) /\ nested = 1
    THEN [block_commands |-> acc, else_commands |-> <<>>, i |-> i]
    ELSE IF MatchesEnd(lines[i]) THEN ScanBlock(lines, command, i + 1, nested - 1, Append(acc, lines[i]))
    ELSE IF MatchesElse(lines[i]) /\ nested = 1 /\ command = "IF"
    THEN LET e == ScanElse(lines, i + 1, nested, <<>>)
         IN  [block_commands |-> acc, else_commands |-> e.else_commands, i |-> e.i]
    ELSE ScanBlock(lines, command, i + 1, nested, Append(acc, lines[i]))

(***************************************************************************)
(* The call stack.                                                         *)
(***************************************************************************)
\* One activation of interpret.  i is the 1-based index of the current line
\* (the code's i + 1).  wait tells where the activation stands while a callee
\* runs: "try" inside the try of a compound statement, "bare" at a DEF --call
\* or LOAD (no try around them), "none" when no callee is running.
InterpretFrame(lines, in_function, local_functions, class_scope) ==
    [kind |-> "interpret", lines |-> lines, i |-> 1, in_function |-> in_function,
     local_functions |-> local_functions, class_scope |-> class_scope, wait |-> "none"]

\* One activation of execute_for.  History: entry is self.variables at the
\* FOR, visited the values the loop variable had when the body was started
\* (the first MaxVisited of them: more than any loop that ends makes).
ForFrame(loop_var, start, end, step, block_commands, entry) ==
    [kind |-> "for", loop_var |-> loop_var, start |-> start, end |-> end, step |-> step,
     block_commands |-> block_commands, pc |-> "test", entry |-> entry, visited |-> <<>>]

IfFrame(entry) == [kind |-> "if", entry |-> entry]

WhileFrame(condition, block_commands, entry) ==
    [kind |-> "while", condition |-> condition, block_commands |-> block_commands,
     entry |-> entry]

Function(parameters, code) == [parameters |-> parameters, code |-> code]

Top == frames[Len(frames)]
Popped == SubSeq(frames, 1, Len(frames) - 1)

\* The kinds of the open execute_* activations, outermost first.
Nest(fs) == LET sel == SelectSeq(fs, LAMBDA f : f.kind # "interpret")
            IN  [k \in 1..Len(sel) |-> sel[k].kind]

Raised(kind, msg, tags, stmt) ==
    [kind |-> kind, msg |-> msg, value |-> NoneV, tags |-> tags, wrapped |-> FALSE,
     nest |-> Nest(frames), stmt |-> stmt]

\* The caller, an interpret activation, goes on behind the statement: i += 1.
Resume(fs) == [fs EXCEPT ![Len(fs)].i = @ + 1, ![Len(fs)].wait = "none"]

StatusOf(fs, e) == IF fs # <<>> THEN "running"
                   ELSE IF e.kind = "none" THEN "done" ELSE "failed"

Running == status = "running" /\ frames # <<>> /\ exc.kind = "none"
Unwinding == status = "running" /\ frames # <<>> /\ exc.kind # "none"

\* interpret stands at a line that starts with the given instruction word.
AtText(op) ==
    /\ Running
    /\ Top.kind = "interpret" /\ Top.wait = "none"
    /\ Top.i <= Len(Top.lines)
    /\ Top.lines[Top.i].op = op

\* interpret stands at a line that parse_line reads as the given instruction.
AtLine(op) == AtText(op) /\ Matches(Top.lines[Top.i])

CurArgs == parse_line(Top.lines[Top.i])

\* list.pop() of self.variables
PopScope(stack) == SubSeq(stack, 1, Len(stack) - 1)

(***************************************************************************)
(* interpret: single-line instructions (the last branch of the dispatch).  *)
(* An InterpreterError is re-raised with the prefix "Line i+1".            *)
(***************************************************************************)
Simple(r, stmt) ==
    /\ UNCHANGED <<variables, functions, tables, files>>
    /\ IF r.err = ""
       THEN /\ dicts' = r.dicts /\ heap' = r.heap /\ written' = r.written
            /\ frames' = Resume(frames)
            /\ UNCHANGED <<exc, status>>
       ELSE /\ UNCHANGED <<dicts, heap, written>>
            /\ frames' = Popped
            /\ exc' = Raised(r.err, r.msg,
                             IF r.err = "InterpreterError" THEN <<Top.i>> ELSE <<>>, stmt)
            /\ status' = StatusOf(frames', exc')

\* parse_line matches no pattern: "Unable to parse line", re-raised by
\* interpret with the prefix "Line i+1".
parse_line_error ==
    /\ Running
    /\ Top.kind = "interpret" /\ Top.wait = "none"
    /\ Top.i <= Len(Top.lines)
    /\ ~Matches(Top.lines[Top.i])
    /\ exc' = Raised("InterpreterError", "unable to parse", <<Top.i>>, Top.lines[Top.i].op)
    /\ frames' = Popped
    /\ status' = StatusOf(frames', exc')
    /\ UNCHANGED <<variables, dicts, heap, written, functions, tables, files>>

VAR_statement == AtLine("VAR") /\ Simple(execute_var(CurArgs), "VAR")
SUM_statement == AtLine("SUM") /\ Simple(execute_sum(CurArgs), "SUM")
SUBTRACT_statement == AtLine("SUBTRACT") /\ Simple(execute_subtract(CurArgs), "SUBTRACT")
MULTIPLY_statement == AtLine("MULTIPLY") /\ Simple(execute_multiply(CurArgs), "MULTIPLY")
DIVIDE_statement == AtLine("DIVIDE") /\ Simple(execute_divide(CurArgs), "DIVIDE")
MEM_RELEASE_statement == AtLine("MEM_RELEASE") /\ Simple(execute_mem_release(CurArgs), "MEM_RELEASE")
ARR_CREATE_statement == AtLine("ARR_CREATE") /\ Simple(execute_array_create(CurArgs), "ARR_CREATE")
ARR_SET_DATA_statement == AtLine("ARR_SET_DATA") /\ Simple(execute_array_set_data(CurArgs), "ARR_SET_DATA")
ARR_GET_DATA_statement == AtLine("ARR_GET_DATA") /\ Simple(execute_array_get_data(CurArgs), "ARR_GET_DATA")

\* RETURN: raises FunctionReturn(var.value); outside any try of interpret.
RETURN_statement ==
    /\ AtLine("RETURN")
    /\ LET id == get_variable(dicts, variables, CurArgs.var)
       IN  exc' = IF id = 0
                  THEN Raised("InterpreterError", "not defined for RETURN", <<>>, "RETURN")
                  ELSE [Raised("FunctionReturn", "", <<>>, "RETURN")
                            EXCEPT !.value = dicts[id][CurArgs.var].value]
    /\ frames' = Popped
    /\ status' = StatusOf(frames', exc')
    /\ UNCHANGED <<variables, dicts, heap, written, functions, tables, files>>

\* DEF --create: the scanned body is stored in the call-local table when
\* interpret was given one, else in self.functions.
execute_def_create ==
    /\ AtLine("DEF_CREATE")
    /\ LET sc == ScanBlock(Top.lines, "DEF_CREATE", Top.i + 1, 1, <<>>)
           parameters == IF CurArgs.inputs.isNone THEN <<>> ELSE CurArgs.inputs.items
           function == Function(parameters, sc.block_commands)
       IN  /\ IF Top.local_functions # 0
              THEN /\ tables' = [tables EXCEPT ![Top.local_functions] =
                                    DictSet(@, CurArgs.name_def, function)]
                   /\ UNCHANGED functions
              ELSE /\ functions' = DictSet(functions, CurArgs.name_def, function)
                   /\ UNCHANGED tables
           /\ frames' = [frames EXCEPT ![Len(frames)].i = sc.i + 1]
    /\ UNCHANGED <<variables, dicts, heap, written, files, exc, status>>

\* An END that no scan consumed: "'END' without matching block", raised
\* outside any try of interpret, so without a line prefix.
END_statement ==
    /\ AtLine("END")
    /\ exc' = Raised("InterpreterError", "END without matching block", <<>>, "END")
    /\ frames' = Popped
    /\ status' = StatusOf(frames', exc')
    /\ UNCHANGED <<variables, dicts, heap, written, functions, tables, files>>

\* An ELSE that no scan consumed falls through the dispatch of the
\* single-line instructions: "Unknown command 'ELSE'", with the line prefix.
ELSE_statement ==
    /\ AtLine("ELSE")
    /\ exc' = Raised("InterpreterError", "unknown command", <<Top.i>>, "ELSE")
    /\ frames' = Popped
    /\ status' = StatusOf(frames', exc')
    /\ UNCHANGED <<variables, dicts, heap, written, functions, tables, files>>

\* interpret returns: the loop ran past the last line.
interpret_return ==
    /\ Running
    /\ Top.kind = "interpret" /\ Top.wait = "none"
    /\ Top.i > Len(Top.lines)
    /\ frames' = Popped
    /\ status' = StatusOf(frames', exc)
    /\ UNCHANGED <<variables, dicts, heap, written, functions, tables, files, exc>>

\* An exception comes back to interpret from a callee.  Around a compound
\* statement: InterpreterError gets the prefix "Line i+1" (i at the END),
\* FunctionReturn is re-raised when in_function and becomes an
\* InterpreterError otherwise.  Around DEF --call and LOAD: nothing.
interpret_except ==
    /\ Unwinding
    /\ Top.kind = "interpret"
    /\ exc' = IF Top.wait = "try" /\ exc.kind = "InterpreterError"
              THEN [exc EXCEPT !.tags = <<Top.i>> \o @]
              ELSE IF Top.wait = "try" /\ exc.kind = "FunctionReturn" /\ ~Top.in_function
              THEN [exc EXCEPT !.kind = "InterpreterError",
                               !.msg = "RETURN outside function",
                               !.tags = <<>>, !.wrapped = FALSE]
              ELSE exc
    /\ frames' = Popped
    /\ status' = StatusOf(frames', exc')
    /\ UNCHANGED <<variables, dicts, heap, written, functions, tables, files>>

(***************************************************************************)
(* Compound statements.  interpret scans the body, leaves i at the closing *)
(* END and calls execute_for / execute_if / execute_while inside its try.  *)
(***************************************************************************)
\* The caller while the compound statement runs.
Calling(end, how) == [frames EXCEPT ![Len(frames)].i = end, ![Len(frames)].wait = how]

\* A new scope dict is pushed on self.variables.
PushedDicts(dict) == Append(dicts, dict)
PushedStack == Append(variables, Len(dicts) + 1)

\* execute_if: the condition is evaluated once; the taken branch runs in a
\* pushed scope.
execute_if ==
    /\ AtLine("IF")
    /\ LET sc == ScanBlock(Top.lines, "IF", Top.i + 1, 1, <<>>)
           c == evaluate_condition(CurArgs.condition)
           branch == IF c.val THEN sc.block_commands ELSE sc.else_commands
       IN  IF c.err # ""
           THEN /\ exc' = Raised("InterpreterError", c.err, <<sc.i>>, "IF")
                /\ frames' = Popped
                /\ UNCHANGED <<variables, dicts>>
           ELSE IF c.val \/ sc.else_commands # <<>>
           THEN /\ dicts' = PushedDicts(EmptyDict)
                /\ variables' = PushedStack
                /\ frames' = Calling(sc.i, "try")
                                \o <<IfFrame(variables), InterpretFrame(branch, FALSE, 0, 0)>>
                /\ UNCHANGED exc
           ELSE /\ frames' = Resume(Calling(sc.i, "none"))
                /\ UNCHANGED <<variables, dicts, exc>>
    /\ status' = StatusOf(frames', exc')
    /\ UNCHANGED <<heap, written, functions, tables, files>>

\* execute_if after the branch has run: self.variables.pop().
execute_if_exit ==
    /\ Running
    /\ Top.kind = "if"
    /\ IF variables = <<>>
       THEN /\ exc' = Raised("IndexError", "pop from empty list", <<>>, "IF")
            /\ frames' = Popped
            /\ UNCHANGED variables
       ELSE /\ variables' = PopScope(variables)
            /\ frames' = Resume(Popped)
            /\ UNCHANGED exc
    /\ status' = StatusOf(frames', exc')
    /\ UNCHANGED <<dicts, heap, written, functions, tables, files>>

\* An exception passes through execute_if or execute_for: neither has a
\* handler, so the scope they pushed stays on self.variables.
execute_if_raise ==
    /\ Unwinding
    /\ Top.kind = "if"
    /\ frames' = Popped
    /\ UNCHANGED <<variables, dicts, heap, written, functions, tables, files, exc, status>>

execute_for_raise ==
    /\ Unwinding
    /\ Top.kind = "for"
    /\ frames' = Popped
    /\ UNCHANGED <<variables, dicts, heap, written, functions, tables, files, exc, status>>

\* start / end / step: the value of the variable of that name, else int(text).
Resolve(tok) ==
    LET id == get_variable(dicts, variables, tok.t)
    IN  IF id # 0 THEN [err |-> "", v |-> dicts[id][tok.t].value]
        ELSE IF tok.isInt THEN [err |-> "", v |-> IntV(tok.n)]
        ELSE [err |-> "ValueError", v |-> NoneV]

\* execute_for up to its while loop.
execute_for ==
    /\ AtLine("FOR")
    /\ LET sc == ScanBlock(Top.lines, "FOR", Top.i + 1, 1, <<>>)
           loop_var == IF CurArgs.var = "" THEN "i" ELSE CurArgs.var
           start == Resolve(CurArgs.start)
           end == Resolve(CurArgs.end)
           step == Resolve(CurArgs.step)
       IN  IF start.err # "" \/ end.err # "" \/ step.err # ""
           THEN /\ exc' = Raised("ValueError", "int()", <<>>, "FOR")
                /\ frames' = Popped
                /\ UNCHANGED <<variables, dicts>>
           ELSE /\ dicts' = PushedDicts(DictSet(EmptyDict, loop_var, Variable("int", start.v)))
                /\ variables' = PushedStack
                /\ IF IsNumber(step.v)
                   THEN /\ frames' = Calling(sc.i, "try") \o
                               <<ForFrame(loop_var, start.v, end.v, step.v, sc.block_commands,
                                          variables)>>
                        /\ UNCHANGED exc
                   ELSE /\ exc' = Raised("TypeError", "step > 0", <<>>, "FOR")
                        /\ frames' = Popped
    /\ status' = StatusOf(frames', exc')
    /\ UNCHANGED <<heap, written, functions, tables, files>>

\* execute_for whose loop condition is chosen by step >= 0 in place of
\* step > 0.
execute_for_test_ge ==
    /\ Running
    /\ Top.kind = "for" /\ Top.pc = "test"
    /\ LET id == get_variable(dicts, variables, Top.loop_var)
           x == dicts[id][Top.loop_var].value
           go == IF ~NumLess(Top.step, IntV(0)) THEN ~NumLess(Top.end, x)
                 ELSE ~NumLess(x, Top.end)
       IN  IF id = 0
           THEN /\ exc' = Raised("AttributeError", "NoneType has no value", <<>>, "FOR")
                /\ frames' = Popped
                /\ UNCHANGED variables
           ELSE IF ~IsNumber(x) \/ ~IsNumber(Top.end)
           THEN /\ exc' = Raised("TypeError", "compare", <<>>, "FOR")
                /\ frames' = Popped
                /\ UNCHANGED variables
           ELSE IF go
           THEN /\ frames' = [frames EXCEPT ![Len(frames)].pc = "body",
                                              ![Len(frames)].visited =
                                                  IF Len(@) < MaxVisited THEN Append(@, x)
                                                  ELSE @]
                                \o <<InterpretFrame(Top.block_commands, FALSE, 0, 0)>>
                /\ UNCHANGED <<variables, exc>>
           ELSE IF variables = <<>>
           THEN /\ exc' = Raised("IndexError", "pop from empty list", <<>>, "FOR")
                /\ frames' = Popped
                /\ UNCHANGED variables
           ELSE /\ variables' = PopScope(variables)
                /\ frames' = Resume(Popped)
                /\ UNCHANGED exc
    /\ status' = StatusOf(frames', exc')
    /\ UNCHANGED <<dicts, heap, written, functions, tables, files>>

\* The loop condition of execute_for: the body is interpreted again, or the
\* loop ends and the scope is popped.
execute_for_test ==
    /\ Running
    /\ Top.kind = "for" /\ Top.pc = "test"
    /\ LET id == get_variable(dicts, variables, Top.loop_var)
           x == dicts[id][Top.loop_var].value
           go == IF NumLess(IntV(0), Top.step) THEN ~NumLess(Top.end, x)
                 ELSE ~NumLess(x, Top.end)
       IN  IF id = 0
           THEN /\ exc' = Raised("AttributeError", "NoneType has no value", <<>>, "FOR")
                /\ frames' = Popped
                /\ UNCHANGED variables
           ELSE IF ~IsNumber(x) \/ ~IsNumber(Top.end)
           THEN /\ exc' = Raised("TypeError", "compare", <<>>, "FOR")
                /\ frames' = Popped
                /\ UNCHANGED variables
           ELSE IF go
           THEN /\ frames' = [frames EXCEPT ![Len(frames)].pc = "body",
                                              ![Len(frames)].visited =
                                                  IF Len(@) < MaxVisited THEN Append(@, x)
                                                  ELSE @]
                                \o <<InterpretFrame(Top.block_commands, FALSE, 0, 0)>>
                /\ UNCHANGED <<variables, exc>>
           ELSE IF variables = <<>>
           THEN /\ exc' = Raised("IndexError", "pop from empty list", <<>>, "FOR")
                /\ frames' = Popped
                /\ UNCHANGED variables
           ELSE /\ variables' = PopScope(variables)
                /\ frames' = Resume(Popped)
                /\ UNCHANGED exc
    /\ status' = StatusOf(frames', exc')
    /\ UNCHANGED <<dicts, heap, written, functions, tables, files>>

\* execute_for with a scope per iteration: behind the body the loop's scope
\* is replaced by a fresh one that holds the loop variable only.
execute_for_step_fresh ==
    /\ Running
    /\ Top.kind = "for" /\ Top.pc = "body"
    /\ LET id == get_variable(dicts, variables, Top.loop_var)
           x == dicts[id][Top.loop_var].value
       IN  IF id = 0
           THEN /\ exc' = Raised("AttributeError", "NoneType has no value", <<>>, "FOR")
                /\ frames' = Popped
                /\ UNCHANGED dicts
           ELSE IF ~IsNumber(x)
           THEN /\ exc' = Raised("TypeError", "+=", <<>>, "FOR")
                /\ frames' = Popped
                /\ UNCHANGED dicts
           ELSE /\ dicts' = [dicts EXCEPT ![id] =
                                DictSet(EmptyDict, Top.loop_var,
                                        Variable("int", Add(x, Top.step)))]
                /\ frames' = [frames EXCEPT ![Len(frames)].pc = "test"]
                /\ UNCHANGED exc
    /\ status' = StatusOf(frames', exc')
    /\ UNCHANGED <<variables, heap, written, functions, tables, files>>

\* After the body: self.get_variable(loop_var).value += step.
execute_for_step ==
    /\ Running
    /\ Top.kind = "for" /\ Top.pc = "body"
    /\ LET id == get_variable(dicts, variables, Top.loop_var)
           x == dicts[id][Top.loop_var].value
       IN  IF id = 0
           THEN /\ exc' = Raised("AttributeError", "NoneType has no value", <<>>, "FOR")
                /\ frames' = Popped
                /\ UNCHANGED dicts
           ELSE IF ~IsNumber(x)
           THEN /\ exc' = Raised("TypeError", "+=", <<>>, "FOR")
                /\ frames' = Popped
                /\ UNCHANGED dicts
           ELSE /\ dicts' = [dicts EXCEPT ![id][Top.loop_var].value = Add(x, Top.step)]
                /\ frames' = [frames EXCEPT ![Len(frames)].pc = "test"]
                /\ UNCHANGED exc
    /\ status' = StatusOf(frames', exc')
    /\ UNCHANGED <<variables, heap, written, functions, tables, files>>

\* execute_while: one scope for the whole loop.
execute_while ==
    /\ AtLine("WHILE")
    /\ LET sc == ScanBlock(Top.lines, "WHILE", Top.i + 1, 1, <<>>)
       IN  frames' = Calling(sc.i, "try")
                        \o <<WhileFrame(CurArgs.condition, sc.block_commands, variables)>>
    /\ dicts' = PushedDicts(EmptyDict)
    /\ variables' = PushedStack
    /\ UNCHANGED <<heap, written, functions, tables, files, exc, status>>

\* The loop condition of execute_while, and the finally clause when the loop
\* ends or evaluate_condition raises.
execute_while_test ==
    /\ Running
    /\ Top.kind = "while"
    /\ LET c == evaluate_condition(Top.condition)
       IN  IF c.err = "" /\ c.val
           THEN /\ frames' = Append(frames, InterpretFrame(Top.block_commands, TRUE, 0, 0))
                /\ UNCHANGED <<variables, exc>>
           ELSE IF variables = <<>>
           THEN /\ exc' = Raised("IndexError", "pop from empty list", <<>>, "WHILE")
                /\ frames' = Popped
                /\ UNCHANGED variables
           ELSE /\ variables' = PopScope(variables)
                /\ IF c.err = ""
                   THEN frames' = Resume(Popped) /\ UNCHANGED exc
                   ELSE /\ exc' = Raised("InterpreterError", c.err, <<>>, "WHILE")
                        /\ frames' = Popped
    /\ status' = StatusOf(frames', exc')
    /\ UNCHANGED <<dicts, heap, written, functions, tables, files>>

\* An exception leaves the body of execute_while: the except clause pops a
\* scope for a FunctionReturn, and the finally clause pops one in every case.
\* A pop of the empty list raises IndexError in place of the exception.
execute_while_except ==
    /\ Unwinding
    /\ Top.kind = "while"
    /\ LET pops == IF exc.kind = "FunctionReturn" THEN 2 ELSE 1
       IN  IF Len(variables) >= pops
           THEN /\ variables' = SubSeq(variables, 1, Len(variables) - pops)
                /\ UNCHANGED exc
           ELSE /\ variables' = <<>>
                /\ exc' = [Raised("IndexError", "pop from empty list", <<>>, "WHILE")
                              EXCEPT !.nest = exc.nest]
    /\ frames' = Popped
    /\ UNCHANGED <<dicts, heap, written, functions, tables, files, status>>

(***************************************************************************)
(* DEF --call.                                                             *)
(***************************************************************************)
\* A variable with the contents of the list object it refers to.
Deep(hp, var) == [type |-> var.type, value |-> var.value,
                  items |-> IF var.value.k = "list" THEN hp[var.value.n] ELSE <<>>]

\* One activation of execute_def_call.  History: base is self.variables at
\* the call, origin the scope that held each argument, snap the arguments
\* (with list contents) at the call, visible the names bound at the call.
CallFrame(name_def, inputs, save, function, origin, snap) ==
    [kind |-> "call", name_def |-> name_def, inputs |-> inputs, save |-> save,
     function |-> function, base |-> variables, origin |-> origin, snap |-> snap,
     visible |-> UNION {DOMAIN dicts[variables[k]] : k \in 1..Len(variables)}]

\* The function a DEF --call names: the call-local table first.
LookupFunction(local_functions, name_def) ==
    IF local_functions # 0 /\ name_def \in DOMAIN tables[local_functions]
    THEN [found |-> TRUE, f |-> tables[local_functions][name_def]]
    ELSE IF name_def \in DOMAIN functions
    THEN [found |-> TRUE, f |-> functions[name_def]]
    ELSE [found |-> FALSE, f |-> Function(<<>>, <<>>)]

\* The scopes in which the arguments are looked up:
\* self.variables + [class_scope] if class_scope else self.variables
ArgumentScopes(class_scope) ==
    IF class_scope # 0 /\ DOMAIN dicts[class_scope] # {}
    THEN Append(variables, class_scope)
    ELSE variables

\* local_scope[param] = Variable(var.type, param, var.value)
ParameterCopy(var) == Variable(var.type, var.value)

RECURSIVE BindParameters(_, _, _, _, _)
BindParameters(parameters, inputs, scopes, k, local_scope) ==
    IF k > Len(parameters) \/ k > Len(inputs)
    THEN [err |-> "", local_scope |-> local_scope]
    ELSE LET id == get_variable(dicts, scopes, inputs[k])
         IN  IF id = 0 THEN [err |-> "argument not defined", local_scope |-> local_scope]
             ELSE BindParameters(parameters, inputs, scopes, k + 1,
                      DictSet(local_scope, parameters[k], ParameterCopy(dicts[id][inputs[k]])))

\* len(inputs) != len(function.parameters)
ArgumentCountMismatch(inputs, function) == Len(inputs) # Len(function.parameters)

\* execute_def_call up to the interpretation of the body.
execute_def_call ==
    /\ AtLine("DEF_CALL")
    /\ LET args == CurArgs
           fn == LookupFunction(Top.local_functions, args.name_def)
           scopes == ArgumentScopes(Top.class_scope)
           b == BindParameters(fn.f.parameters, args.inputs.items, scopes, 1, EmptyDict)
           origin == [k \in 1..Len(args.inputs.items) |->
                         get_variable(dicts, scopes, args.inputs.items[k])]
           snap == [k \in 1..Len(args.inputs.items) |->
                         Deep(heap, dicts[origin[k]][args.inputs.items[k]])]
           fail == IF ~fn.found THEN Raised("InterpreterError", "function not defined", <<>>, "DEF_CALL")
                   ELSE IF args.inputs.isNone THEN Raised("TypeError", "len(None)", <<>>, "DEF_CALL")
                   ELSE IF ArgumentCountMismatch(args.inputs.items, fn.f)
                   THEN Raised("InterpreterError", "argument count", <<>>, "DEF_CALL")
                   ELSE IF b.err # "" THEN Raised("InterpreterError", b.err, <<>>, "DEF_CALL")
                   ELSE NoExc
       IN  IF fail.kind # "none"
           THEN /\ exc' = fail
                /\ frames' = Popped
                /\ UNCHANGED <<variables, dicts>>
           ELSE /\ dicts' = PushedDicts(b.local_scope)
                /\ variables' = PushedStack
                /\ frames' = Calling(Top.i, "bare") \o
                      <<CallFrame(args.name_def, args.inputs.items, args.save,
                                  fn.f, origin, snap),
                        InterpretFrame(fn.f.code, TRUE, Top.local_functions, Top.class_scope)>>
                /\ UNCHANGED exc
    /\ status' = StatusOf(frames', exc')
    /\ UNCHANGED <<heap, written, functions, tables, files>>

\* int(x), float(x), str(x) of the return value, by the declared type of the
\* destination: the value, or the class of the exception raised.  The text
\* that str() makes of a float or of a list is kept as the name of the
\* value's kind; no script explored reads such a text back as a number.
Cast(type, v) ==
    IF type = "int" THEN
        (IF IsNumber(v) THEN [err |-> "", v |-> IntV(Trunc(v))]
         ELSE IF v.k = "str" /\ v.d = 1 THEN [err |-> "", v |-> IntV(v.n)]
         ELSE IF v.k = "str" THEN [err |-> "ValueError", v |-> v]
         ELSE [err |-> "TypeError", v |-> v])
    ELSE IF type = "float" THEN
        (IF IsNumber(v) THEN [err |-> "", v |-> FloatV(v.n, v.d)]
         ELSE IF v.k = "str" /\ v.d = 1 THEN [err |-> "", v |-> FloatV(v.n, 1)]
         ELSE IF v.k = "str" THEN [err |-> "ValueError", v |-> v]
         ELSE [err |-> "TypeError", v |-> v])
    ELSE IF type = "str" THEN
        (IF v.k = "int" THEN [err |-> "", v |-> NumStrV(v.n)]
         ELSE IF v.k = "str" THEN [err |-> "", v |-> v]
         ELSE [err |-> "", v |-> StrV(v.k)])
    ELSE [err |-> "", v |-> v]

\* The lines of execute_def_call behind the finally clause: the return value
\* goes to the --save destination, looked up on the stack `stack`.
SaveReturnValue(stack, save, return_value) ==
    LET id == get_variable(dicts, stack, save)
        made == set_variable(dicts, stack, save, Variable("auto", return_value))
        type == dicts[id][save].type
        c == Cast(type, return_value)
    IN  IF id = 0 THEN [err |-> made.err, msg |-> "set_variable", dicts |-> made.dicts]
        ELSE IF type \notin {"int", "float", "str", "auto"}
        THEN [err |-> "InterpreterError", msg |-> "unsupported type for return value", dicts |-> dicts]
        ELSE IF c.err = "ValueError"
        THEN [err |-> "InterpreterError", msg |-> "cannot cast return value", dicts |-> dicts]
        ELSE IF c.err # "" THEN [err |-> c.err, msg |-> "cast", dicts |-> dicts]
        ELSE [err |-> "", msg |-> "", dicts |-> [dicts EXCEPT ![id][save].value = c.v]]

\* The body raised FunctionReturn: caught, the finally clause pops one scope,
\* the value is saved and the call returns.
execute_def_call_return ==
    /\ Unwinding
    /\ Top.kind = "call"
    /\ exc.kind = "FunctionReturn"
    /\ IF variables = <<>>
       THEN /\ exc' = Raised("IndexError", "pop from empty list", <<>>, "DEF_CALL")
            /\ frames' = Popped
            /\ UNCHANGED <<variables, dicts>>
       ELSE /\ variables' = PopScope(variables)
            /\ LET r == SaveReturnValue(variables', Top.save, exc.value)
               IN  IF r.err = ""
                   THEN /\ dicts' = r.dicts
                        /\ frames' = Resume(Popped)
                        /\ exc' = NoExc
                   ELSE /\ exc' = Raised(r.err, r.msg, <<>>, "DEF_CALL")
                        /\ frames' = Popped
                        /\ UNCHANGED dicts
    /\ UNCHANGED <<heap, written, functions, tables, files, status>>

\* Any other exception leaves the body: the finally clause pops one scope
\* and the exception goes on to the caller.
execute_def_call_raise ==
    /\ Unwinding
    /\ Top.kind = "call"
    /\ exc.kind # "FunctionReturn"
    /\ IF variables = <<>>
       THEN /\ exc' = [Raised("IndexError", "pop from empty list", <<>>, "DEF_CALL")
                          EXCEPT !.nest = exc.nest]
            /\ UNCHANGED variables
       ELSE /\ variables' = PopScope(variables)
            /\ UNCHANGED exc
    /\ frames' = Popped
    /\ UNCHANGED <<dicts, heap, written, functions, tables, files, status>>

\* The body ended without RETURN: the finally clause pops one scope, and the
\* lines behind it read return_value, which was never assigned.
execute_def_call_end ==
    /\ Running
    /\ Top.kind = "call"
    /\ IF variables = <<>>
       THEN /\ exc' = Raised("IndexError", "pop from empty list", <<>>, "DEF_CALL")
            /\ UNCHANGED variables
       ELSE /\ variables' = PopScope(variables)
            /\ LET id == get_variable(dicts, variables', Top.save)
               IN  exc' = IF id # 0 /\ dicts[id][Top.save].type \notin {"int", "float", "str", "auto"}
                          THEN Raised("InterpreterError", "unsupported type for return value", <<>>, "DEF_CALL")
                          ELSE Raised("UnboundLocalError", "return_value", <<>>, "DEF_CALL")
    /\ frames' = Popped
    /\ UNCHANGED <<dicts, heap, written, functions, tables, files, status>>

(***************************************************************************)
(* The module ("class") loader.                                            *)
(***************************************************************************)
\* The lines of a class file, by their sentinel text.
CClass(name) == [op |-> "Class", name |-> name]
CBegin == [op |-> "BEGIN"]
CIn == [op |-> "IN :"]
CLib == [op |-> "LIB"]
CEnvCal == [op |-> "ENV CAL"]
COut == [op |-> "OUT"]
CEndClass(name) == [op |-> "END name", name |-> name]
\* _type: name, name, ...
CDecl(type, names) == [op |-> "_type:", type |-> type, names |-> names]

Declarations(line) == [k \in 1..Len(line.names) |-> [type |-> line.type, name |-> line.names[k]]]

\* line == f'END {name}'
IsEndOf(line, cd) == line.op = "END name" /\ line.name = cd.name

\* The loop under `IN :`; stops at LIB or ENV CAL without consuming it.
RECURSIVE ParseIn(_, _, _)
ParseIn(lines, i, cd) ==
    IF i > Len(lines) THEN [i |-> i, cd |-> cd]
    ELSE IF lines[i].op \in {"LIB", "ENV CAL"} THEN [i |-> i, cd |-> cd]
    ELSE IF lines[i].op = "_type:"
    THEN ParseIn(lines, i + 1, [cd EXCEPT !.inputs = @ \o Declarations(lines[i])])
    ELSE ParseIn(lines, i + 1, cd)

\* The loop under LIB; stops at ENV CAL, OUT or the end marker.
RECURSIVE ParseLib(_, _, _)
ParseLib(lines, i, cd) ==
    IF i > Len(lines) THEN [i |-> i, cd |-> cd]
    ELSE IF lines[i].op \in {"ENV CAL", "OUT"} \/ IsEndOf(lines[i], cd) THEN [i |-> i, cd |-> cd]
    ELSE ParseLib(lines, i + 1, [cd EXCEPT !.lib_code = Append(@, lines[i])])

\* The loop under ENV CAL; stops at OUT or the end marker.
RECURSIVE ParseEnvCal(_, _, _)
ParseEnvCal(lines, i, cd) ==
    IF i > Len(lines) THEN [i |-> i, cd |-> cd]
    ELSE IF lines[i].op = "OUT" \/ IsEndOf(lines[i], cd) THEN [i |-> i, cd |-> cd]
    ELSE ParseEnvCal(lines, i + 1, [cd EXCEPT !.code = Append(@, lines[i])])

\* The loop under OUT; stops at the end marker, which is then skipped.
RECURSIVE ParseOut(_, _, _)
ParseOut(lines, i, cd) ==
    IF i > Len(lines) THEN [i |-> i + 1, cd |-> cd]
    ELSE IF IsEndOf(lines[i], cd) THEN [i |-> i + 1, cd |-> cd]
    ELSE IF lines[i].op = "_type:"
    THEN ParseOut(lines, i + 1, [cd EXCEPT !.outputs = @ \o Declarations(lines[i])])
    ELSE ParseOut(lines, i + 1, cd)

RECURSIVE ParseClass(_, _, _)
ParseClass(lines, i, cd) ==
    IF i > Len(lines) THEN cd
    ELSE IF lines[i].op = "Class"
    THEN ParseClass(lines, i + 1, [cd EXCEPT !.name = lines[i].name, !.named = TRUE])
    ELSE IF lines[i].op = "IN :"
    THEN LET r == ParseIn(lines, i + 1, cd) IN ParseClass(lines, r.i, r.cd)
    ELSE IF lines[i].op = "LIB"
    THEN LET r == ParseLib(lines, i + 1, cd) IN ParseClass(lines, r.i, r.cd)
    ELSE IF lines[i].op = "ENV CAL"
    THEN LET r == ParseEnvCal(lines, i + 1, cd) IN ParseClass(lines, r.i, r.cd)
    ELSE IF lines[i].op = "OUT"
    THEN LET r == ParseOut(lines, i + 1, cd) IN ParseClass(lines, r.i, r.cd)
    ELSE IF IsEndOf(lines[i], cd) THEN cd
    ELSE ParseClass(lines, i + 1, cd)

\* parse_class_definition; named = FALSE is the "class name not found" error.
parse_class_definition(content) ==
    ParseClass(content, 1, [name |-> "None", named |-> FALSE, inputs |-> <<>>,
                            outputs |-> <<>>, code |-> <<>>, lib_code |-> <<>>])

\* One activation of execute_load.  class_scope and table are the ids of the
\* module's scope dict and of class_def.functions.  History: base is
\* self.variables at the LOAD, before_dicts and before_heap the stores then.
LoadFrame(class_def, saves, class_scope, table, phase) ==
    [kind |-> "load", class_def |-> class_def, saves |-> saves,
     class_scope |-> class_scope, table |-> table, phase |-> phase,
     base |-> variables, before_dicts |-> dicts, before_heap |-> heap]

\* ClassInputError without the comparison of the variable's type against the
\* declared type: a loader that only requires the --input variable to exist.
ClassInputError_untyped(id, name, var_type) ==
    IF id = 0 THEN "input not defined" ELSE ""

\* The checks on one --input variable of LOAD (id = 0: not defined).
ClassInputError(id, name, var_type) ==
    IF id = 0 THEN "input not defined"
    ELSE IF dicts[id][name].type # var_type THEN "input type mismatch"
    ELSE ""

RECURSIVE BindClassInputs(_, _, _, _)
BindClassInputs(declared, inputs, k, class_scope) ==
    IF k > Len(declared) \/ k > Len(inputs)
    THEN [err |-> "", class_scope |-> class_scope]
    ELSE LET id == get_variable(dicts, variables, inputs[k])
             e == ClassInputError(id, inputs[k], declared[k].type)
         IN  IF e # "" THEN [err |-> e, class_scope |-> class_scope]
             ELSE BindClassInputs(declared, inputs, k + 1,
                      DictSet(class_scope, declared[k].name,
                              Variable(declared[k].type, dicts[id][inputs[k]].value)))

\* execute_load up to the execution of the module's code.
execute_load ==
    /\ AtLine("LOAD")
    /\ LET args == CurArgs
           class_def == parse_class_definition(files[args.path])
           b == BindClassInputs(class_def.inputs, args.inputs.items, 1, EmptyDict)
           first == IF class_def.lib_code # <<>> THEN "lib" ELSE "code"
           lines == IF first = "lib" THEN class_def.lib_code ELSE class_def.code
           fail == IF args.path \notin DOMAIN files
                   THEN Raised("InterpreterError", "file not found", <<>>, "LOAD")
                   ELSE IF ~class_def.named
                   THEN Raised("InterpreterError", "class name not found", <<>>, "LOAD")
                   ELSE IF args.inputs.isNone THEN Raised("TypeError", "len(None)", <<>>, "LOAD")
                   ELSE IF Len(args.inputs.items) # Len(class_def.inputs)
                   THEN Raised("InterpreterError", "input count", <<>>, "LOAD")
                   ELSE IF b.err # "" THEN Raised("InterpreterError", b.err, <<>>, "LOAD")
                   ELSE NoExc
       IN  IF fail.kind # "none"
           THEN /\ exc' = fail
                /\ frames' = Popped
                /\ UNCHANGED <<variables, dicts, tables>>
           ELSE /\ dicts' = PushedDicts(b.class_scope)
                /\ variables' = PushedStack
                /\ tables' = Append(tables, [x \in {} |-> Function(<<>>, <<>>)])
                /\ frames' = Calling(Top.i, "bare") \o
                      <<LoadFrame(class_def, args.saves, Len(dicts) + 1, Len(tables) + 1, first),
                        InterpretFrame(lines, FALSE, Len(tables) + 1, Len(dicts) + 1)>>
                /\ UNCHANGED exc
    /\ status' = StatusOf(frames', exc')
    /\ UNCHANGED <<heap, written, functions, files>>

\* The LIB code has run: the ENV CAL code is interpreted.
execute_load_code ==
    /\ Running
    /\ Top.kind = "load" /\ Top.phase = "lib"
    /\ frames' = [frames EXCEPT ![Len(frames)].phase = "code"] \o
           <<InterpretFrame(Top.class_def.code, FALSE, Top.table, Top.class_scope)>>
    /\ UNCHANGED <<variables, dicts, heap, written, functions, tables, files, exc, status>>

\* The output mapping of execute_load, from output k on; the assignments made
\* before a failing output stay.
RECURSIVE MapOutputs(_, _, _, _, _, _)
MapOutputs(outputs, saves, k, class_scope, stack, ds) ==
    IF k > Len(outputs) \/ k > Len(saves) THEN [err |-> "", msg |-> "", dicts |-> ds]
    ELSE LET name == outputs[k].name
             id == get_variable(ds, stack, saves[k])
             made == set_variable(ds, stack, saves[k],
                                  Variable(outputs[k].type, ds[class_scope][name].value))
         IN  IF name \notin DOMAIN ds[class_scope]
             THEN [err |-> "InterpreterError", msg |-> "output not defined", dicts |-> ds]
             ELSE IF id # 0 /\ ds[id][saves[k]].type # outputs[k].type
             THEN [err |-> "InterpreterError", msg |-> "output type mismatch", dicts |-> ds]
             ELSE IF id # 0
             THEN MapOutputs(outputs, saves, k + 1, class_scope, stack,
                      [ds EXCEPT ![id][saves[k]].value = ds[class_scope][name].value])
             ELSE IF made.err # "" THEN [err |-> made.err, msg |-> "set_variable", dicts |-> ds]
             ELSE MapOutputs(outputs, saves, k + 1, class_scope, stack, made.dicts)

\* The module's code has run: the finally clause pops one scope, then the
\* outputs are validated and mapped.
execute_load_outputs ==
    /\ Running
    /\ Top.kind = "load" /\ Top.phase = "code"
    /\ IF variables = <<>>
       THEN /\ exc' = Raised("IndexError", "pop from empty list", <<>>, "LOAD")
            /\ frames' = Popped
            /\ UNCHANGED <<variables, dicts>>
       ELSE /\ variables' = PopScope(variables)
            /\ LET r == MapOutputs(Top.class_def.outputs, Top.saves.items, 1,
                                   Top.class_scope, variables', dicts)
                   fail == IF Top.saves.isNone THEN Raised("TypeError", "len(None)", <<>>, "LOAD")
                           ELSE IF Len(Top.saves.items) # Len(Top.class_def.outputs)
                           THEN Raised("InterpreterError", "output count", <<>>, "LOAD")
                           ELSE IF r.err # "" THEN Raised(r.err, r.msg, <<>>, "LOAD")
                           ELSE NoExc
               IN  /\ exc' = fail
                   /\ frames' = IF fail.kind = "none" THEN Resume(Popped) ELSE Popped
                   /\ dicts' = IF Top.saves.isNone
                                  \/ Len(Top.saves.items) # Len(Top.class_def.outputs)
                               THEN dicts ELSE r.dicts
    /\ UNCHANGED <<heap, written, functions, tables, files, status>>

\* An exception leaves the module's code: an InterpreterError is re-raised as
\* "Error executing class ...", and the finally clause pops one scope.
execute_load_except ==
    /\ Unwinding
    /\ Top.kind = "load"
    /\ IF variables = <<>>
       THEN /\ exc' = [Raised("IndexError", "pop from empty list", <<>>, "LOAD")
                          EXCEPT !.nest = exc.nest]
            /\ UNCHANGED variables
       ELSE /\ variables' = PopScope(variables)
            /\ exc' = IF exc.kind = "InterpreterError" THEN [exc EXCEPT !.wrapped = TRUE]
                      ELSE exc
    /\ frames' = Popped
    /\ UNCHANGED <<dicts, heap, written, functions, tables, files, status>>

(***************************************************************************)
(* The scripts explored.  Every run starts from a fresh Interpreter() whose *)
(* interpret(code) has just been entered: one scope (the global one), no   *)
(* functions.  The script is one of several families.                        *)
(***************************************************************************)
Prelude ==
    <<LVar("int", "a", Num(1)), LVar("str", "t", Word("hi")), LVar("float", "fl", Num(2)),
      LVar("int", "x", Num(5)), LVar("int", "y", Num(5)), LArrCreate("arr", MaxArr)>>

Shapes ==
    {"ret", "end", "err", "ret_if", "ret_else", "ret_for", "ret_while", "ret_for_if",
     "ret_if_for", "err_if", "err_for", "err_while", "mut_sum", "mut_var", "mut_arr",
     "mut_release", "for_done", "while_done"}

True == Cond(Num(1), "==", Num(1))
False == Cond(Num(1), "==", Num(2))
ForLoop == LFor("", Num(1), Num(MaxEnd), Num(1))

\* A statement list of the given shape about the variable v.
Body(shape, v) ==
    CASE shape = "ret" -> <<LReturn(v)>>
      [] shape = "end" -> <<LVar("int", "z", Num(1))>>
      [] shape = "err" -> <<LRelease("zz")>>
      [] shape = "ret_if" -> <<LIf(True), LReturn(v), LEnd>>
      [] shape = "ret_else" -> <<LIf(False), LVarDefault("int", "z"), LElse, LReturn(v), LEnd>>
      [] shape = "ret_for" -> <<ForLoop, LReturn(v), LEnd>>
      [] shape = "ret_while" -> <<LWhile(True), LReturn(v), LEnd>>
      [] shape = "ret_for_if" -> <<ForLoop, LIf(True), LReturn(v), LEnd, LEnd>>
      [] shape = "ret_if_for" -> <<LIf(True), ForLoop, LReturn(v), LEnd, LEnd>>
      [] shape = "err_if" -> <<LIf(True), LRelease("zz"), LEnd>>
      [] shape = "err_for" -> <<ForLoop, LRelease("zz"), LEnd>>
      [] shape = "err_while" -> <<LWhile(True), LRelease("zz"), LEnd>>
      [] shape = "mut_sum" -> <<LSum(<<v, v>>, v), LReturn(v)>>
      [] shape = "mut_var" -> <<LVar("int", v, Num(7)), LReturn(v)>>
      [] shape = "mut_arr" -> <<LVar("int", "z", Num(7)), LArrSet(v, "z", 0), LReturn("z")>>
      [] shape = "mut_release" -> <<LVar("int", "z", Num(7)), LRelease(v), LReturn("z")>>
      [] shape = "for_done" -> <<ForLoop, LSum(<<"i", "i">>, "w"), LEnd, LReturn(v)>>
      [] shape = "while_done" -> <<LVar("int", "n", Num(0)), LVar("int", "one", Num(1)),
                                   LWhile(Cond(Word("n"), "<", Num(MaxEnd))),
                                   LSum(<<"n", "one">>, "n"), LEnd, LReturn(v)>>

Contexts == {"top", "if", "else", "for", "while"}

\* The statements in a block of the given kind that runs them once.
Wrap(ctx, stmts) ==
    CASE ctx = "top" -> stmts
      [] ctx = "if" -> <<LIf(True)>> \o stmts \o <<LEnd>>
      [] ctx = "else" -> <<LIf(False), LElse>> \o stmts \o <<LEnd>>
      [] ctx = "for" -> <<LFor("j", Num(1), Num(1), Num(1))>> \o stmts \o <<LEnd>>
      [] ctx = "while" -> <<LWhile(Cond(Word("y"), "==", Num(5)))>> \o stmts
                              \o <<LVar("int", "y", Num(6)), LEnd>>

ParameterNames == <<"p", "q", "u", "v">>
FirstArguments == {"a", "t", "fl", "arr", "zz"}

\* n arguments: the given first one, then the int variable a.
Arguments(first, n) == [k \in 1..n |-> IF k = 1 THEN first ELSE "a"]

\* A function of nparams parameters with a body of the given shape is
\* defined, then called with nargs arguments in the given context.
CallScript(shape, nparams, first, nargs, ctx) ==
    Prelude
    \o <<LDefCreate("f", SubSeq(ParameterNames, 1, nparams))>> \o Body(shape, "p") \o <<LEnd>>
    \o Wrap(ctx, <<LDefCall("f", Arguments(first, nargs), "r")>>)
    \o <<LVarDefault("int", "fin")>>

\* The statements at the top level of the script, outside any function.
InlineScript(shape, ctx) ==
    Prelude \o Wrap(ctx, Body(shape, "a")) \o <<LVarDefault("int", "fin")>>

\* A block of kind inner nested in a block of kind outer; the line named by
\* mark carries a trailing comment.
Opener(kind, name) ==
    CASE kind = "IF" -> <<LIf(True)>>
      [] kind = "FOR" -> <<LFor(name, Num(1), Num(1), Num(1))>>
      [] kind = "WHILE" -> <<LWhile(Cond(Word("y"), "==", Num(5)))>>
      [] kind = "DEF_CREATE" -> <<LDefCreate(name, <<>>)>>

Marked(lines, here) == IF here THEN <<Commented(lines[1])>> ELSE lines

CommentScript(outer, inner, mark) ==
    LET stop(kind) == IF kind = "WHILE" THEN <<LVar("int", "y", Num(6))>> ELSE <<>>
    IN  <<LVar("int", "a", Num(1)), LVar("int", "y", Num(5))>>
        \o Marked(Opener(outer, "f"), mark = "outer") \o stop(outer)
        \o Marked(Opener(inner, "g"), mark = "inner") \o stop(inner)
        \o <<LVar("int", "z", Num(1))>>
        \o (IF inner = "IF" THEN Marked(<<LElse>>, mark = "else") \o <<LVarDefault("int", "w")>>
            ELSE <<>>)
        \o Marked(<<LEnd>>, mark = "inner_end")
        \o (IF outer = "DEF_CREATE" THEN <<LReturn("a")>> ELSE <<>>)
        \o Marked(<<LEnd>>, mark = "outer_end")
        \o (IF outer = "DEF_CREATE" THEN <<LDefCall("f", <<>>, "r")>> ELSE <<>>)
        \o <<LVarDefault("int", "fin")>>

\* An IF branch that declares y, which the global scope binds already,
\* between two calls: of f, which returns from inside a WHILE, of g, which
\* returns from inside an IF, or no call.
ShadowScript(before, after) ==
    LET call(name, save) == IF name = "" THEN <<>> ELSE <<LDefCall(name, <<"a">>, save)>>
    IN  <<LVar("int", "a", Num(1)), LVar("int", "y", Num(5)),
          LDefCreate("f", <<"p">>), LWhile(Cond(Word("p"), "==", Num(1))), LReturn("p"),
          LEnd, LEnd,
          LDefCreate("g", <<"p">>), LIf(Cond(Word("p"), "==", Num(1))), LReturn("p"),
          LEnd, LEnd,
          LIf(Cond(Word("a"), "==", Num(1)))>>
        \o call(before, "r") \o <<LVar("int", "y", Num(6))>> \o call(after, "s")
        \o <<LEnd, LVarDefault("int", "fin")>>

\* A counted loop: start, end and step are written in the FOR line as
\* numbers (how = "literal") or as the names of int variables holding them.
ForScript(start, end, step, how) ==
    <<LVar("int", "n", Num(0)), LVar("int", "one", Num(1)),
      LVar("int", "s0", Num(start)), LVar("int", "e0", Num(end)), LVar("int", "st", Num(step)),
      IF how = "literal" THEN LFor("k", Num(start), Num(end), Num(step))
      ELSE LFor("k", Word("s0"), Word("e0"), Word("st")),
      LSum(<<"n", "one">>, "n"), LEnd, LVarDefault("int", "fin")>>

\* A counted loop whose start, end or step (which) is a word that is neither
\* a number nor the name of a variable.
WordForScript(which) ==
    <<LVar("int", "n", Num(0)), LVar("int", "one", Num(1)),
      LFor("k", IF which = "start" THEN Word("zz") ELSE Num(1),
                IF which = "end" THEN Word("zz") ELSE Num(1),
                IF which = "step" THEN Word("zz") ELSE Num(1)),
      LSum(<<"n", "one">>, "n"), LEnd, LVarDefault("int", "fin")>>

\* A counted loop with step 0 whose body declares w and leaves the loop
\* variable alone.
ZeroStepScript(start, end) ==
    <<LFor("k", Num(start), Num(end), Num(0)), LVar("int", "w", Num(1)), LEnd,
      LVarDefault("int", "fin")>>

\* The operands of the arithmetic scripts: ints, an integer-valued float, a
\* zero, a str, and a name that is not bound.
Operands == {"n7", "m2", "f3", "z0", "t", "u"}
Destinations == {"di", "df", "t", "dn"}

\* An arithmetic reduction of n inputs x, y, z, z, ... into dest.
ArithScript(command, x, y, z, n, dest) ==
    LET inputs == [k \in 1..n |-> IF k = 1 THEN x ELSE IF k = 2 THEN y ELSE z]
    IN  <<LVar("int", "n7", Num(7)), LVar("int", "m2", Num(-2)), LVar("float", "f3", Num(3)),
          LVar("int", "z0", Num(0)), LVar("str", "t", Word("hi")),
          LVar("int", "di", Num(9)), LVar("float", "df", Num(9)),
          CASE command = "SUM" -> LSum(inputs, dest)
            [] command = "SUBTRACT" -> LSubtract(inputs, dest)
            [] command = "MULTIPLY" -> LMultiply(inputs, dest)
            [] command = "DIVIDE" -> LDivide(inputs, dest),
          LVarDefault("int", "fin")>>

\* The value of the variable first is returned by a function and saved in
\* dest; dest is then used as an operand.
SaveScript(first, dest, use) ==
    Prelude
    \o <<LDefCreate("f", <<"p">>), LReturn("p"), LEnd, LDefCall("f", <<first>>, dest)>>
    \o CASE use = "sum" -> <<LSum(<<dest, "a">>, "s")>>
          [] use = "if" -> <<LIf(Cond(Word(dest), "==", Num(1))), LVarDefault("int", "ok"), LEnd>>
          [] use = "while" -> <<LWhile(Cond(Word(dest), ">", Num(1))), LVarDefault("int", "ok"), LEnd>>
          [] OTHER -> <<>>
    \o <<LVarDefault("int", "fin")>>

\* An array of max slots; slot pos is written when pos >= 0; slot index is read.
ArrayScript(max, pos, index) ==
    <<LVar("int", "a", Num(1)), LArrCreate("arr2", max)>>
    \o (IF pos >= 0 THEN <<LArrSet("arr2", "a", pos)>> ELSE <<>>)
    \o <<LArrGet("arr2", index, "d"), LVarDefault("int", "fin")>>

ModuleShapes ==
    {"plain", "sum_x", "release_y", "def_in_if", "def_top", "call_g", "arr_set",
     "no_out", "err"}

InputNames == <<"m1", "m2", "m3", "m4">>
OutputNames == <<"s1", "s2", "s3", "s4">>
SaveNames == <<"o", "x", "o2", "t">>

ModuleBody(shape, nout) ==
    (IF shape = "no_out" THEN <<>> ELSE [k \in 1..nout |-> LVar("int", OutputNames[k], Num(k))])
    \o CASE shape = "sum_x" -> <<LSum(<<"m1", "m1">>, "x")>>
         [] shape = "release_y" -> <<LRelease("y")>>
         [] shape = "def_in_if" -> <<LIf(True), LDefCreate("h", <<"u">>), LReturn("u"), LEnd, LEnd>>
         [] shape = "def_top" -> <<LDefCreate("h", <<"u">>), LReturn("u"), LEnd>>
         [] shape = "call_g" -> <<LDefCall("g", <<"m1">>, "x")>>
         [] shape = "arr_set" -> <<LVar("int", "z", Num(7)), LArrSet("m1", "z", 0)>>
         [] shape = "err" -> <<LRelease("zz")>>
         [] OTHER -> <<>>

\* The text of a class file: nin inputs (the first of type first_type, the
\* others int), nout int outputs, a LIB section defining g.
ModuleFile(shape, first_type, nin, nout) ==
    <<CClass("M"), CBegin, CIn>>
    \o [k \in 1..nin |-> CDecl(IF k = 1 THEN first_type ELSE "int", <<InputNames[k]>>)]
    \o <<CLib, LDefCreate("g", <<"u">>), LReturn("u"), LEnd, CEnvCal>>
    \o ModuleBody(shape, nout)
    \o <<COut>>
    \o (IF nout > 0 THEN <<CDecl("int", SubSeq(OutputNames, 1, nout))>> ELSE <<>>)
    \o <<CEndClass("M")>>

\* The text of a class file whose sections stand in the given order: one
\* int input m1, a LIB section defining g, a main body declaring s1, one
\* int output s1.
Sections == {"IN :", "LIB", "ENV CAL", "OUT"}

SectionText(header) ==
    CASE header = "IN :" -> <<CIn, CDecl("int", <<"m1">>)>>
      [] header = "LIB" -> <<CLib, LDefCreate("g", <<"u">>), LReturn("u"), LEnd>>
      [] header = "ENV CAL" -> <<CEnvCal, LVar("int", "s1", Num(1))>>
      [] header = "OUT" -> <<COut, CDecl("int", <<"s1">>)>>

SectionOrders ==
    {order \in UNION {[1..n -> Sections] : n \in 0..4} :
        \A j, k \in DOMAIN order : j # k => order[j] # order[k]}

OrderedFile(order) ==
    LET part(k) == IF k <= Len(order) THEN SectionText(order[k]) ELSE <<>>
    IN  <<CClass("M"), CBegin>> \o part(1) \o part(2) \o part(3) \o part(4)
        \o <<CEndClass("M")>>

\* A class file with one int input m1 and one output s1 of the declared
\* type; its body declares s1 ("plain"), does not ("unbound"), or declares
\* it and calls the library function g, which returns from inside an IF
\* ("IF") or a WHILE ("WHILE").
OutputFile(type, body) ==
    <<CClass("M"), CBegin, CIn, CDecl("int", <<"m1">>),
      CLib, LDefCreate("g", <<"u">>),
      IF body = "WHILE" THEN LWhile(Cond(Word("u"), "==", Num(1)))
                        ELSE LIf(Cond(Word("u"), "==", Num(1))),
      LReturn("u"), LEnd, LEnd, CEnvCal>>
    \o (CASE body = "plain" -> <<LVar("int", "s1", Num(1))>>
          [] body = "unbound" -> <<LVar("int", "z", Num(1))>>
          [] body \in {"IF", "WHILE"} ->
                <<LVar("int", "s1", Num(1)), LDefCall("g", <<"m1">>, "w")>>)
    \o <<COut, CDecl(type, <<"s1">>), CEndClass("M")>>

\* A class file whose main body binds s1 = 1 and q = 9 and calls the library
\* function g with q; g hands its parameter (param) on to the library
\* function h, which returns it.  With param = "s1" the parameter of g has
\* the name of a variable of the module's scope.
NestedCallFile(param) ==
    <<CClass("M"), CBegin, CIn, CDecl("int", <<"m1">>),
      CLib, LDefCreate("h", <<"v">>), LReturn("v"), LEnd,
      LDefCreate("g", <<param>>), LDefCall("h", <<param>>, "r"), LReturn("r"), LEnd,
      CEnvCal, LVar("int", "s1", Num(1)), LVar("int", "q", Num(9)),
      LDefCall("g", <<"q">>, "s2"),
      COut, CDecl("auto", <<"s2">>), CEndClass("M")>>

\* The module is loaded with the int variable a; its output goes to save.
OutputScript(save) ==
    Prelude \o <<LLoad("m.cls", <<"a">>, <<save>>), LVarDefault("int", "fin")>>

LoadScript(first, nargs, nsaves) ==
    Prelude
    \o <<LLoad("m.cls", Arguments(first, nargs), SubSeq(SaveNames, 1, nsaves))>>
    \o <<LVarDefault("int", "fin")>>

Start(script, disk) ==
    /\ variables = <<1>>
    /\ dicts = <<EmptyDict>>
    /\ heap = <<>>
    /\ written = <<>>
    /\ functions = [x \in {} |-> Function(<<>>, <<>>)]
    /\ tables = <<>>
    /\ frames = <<InterpretFrame(script, FALSE, 0, 0)>>
    /\ exc = NoExc
    /\ files = disk
    /\ status = "running"

NoFiles == [x \in {} |-> <<>>]

Init ==
    \/ \E shape \in Shapes, nparams \in 0..MaxParams, first \in FirstArguments,
          nargs \in 0..MaxArgs, ctx \in Contexts :
          Start(CallScript(shape, nparams, first, nargs, ctx), NoFiles)
    \/ \E shape \in Shapes, ctx \in Contexts :
          Start(InlineScript(shape, ctx), NoFiles)
    \/ \E max \in 0..MaxArr, pos \in -1..MaxArr, index \in 0..MaxArr :
          Start(ArrayScript(max, pos, index), NoFiles)
    \/ \E start \in 0..MaxEnd + 1, end \in 0..MaxEnd + 1, step \in {-2, -1, 1, 2},
          how \in {"literal", "variable"} :
          Start(ForScript(start, end, step, how), NoFiles)
    \/ \E which \in {"start", "end", "step"} : Start(WordForScript(which), NoFiles)
    \/ \E start \in 0..MaxEnd, end \in 0..MaxEnd : Start(ZeroStepScript(start, end), NoFiles)
    \/ \E command \in {"SUM", "SUBTRACT", "MULTIPLY", "DIVIDE"}, x \in Operands,
          y \in Operands, z \in {"n7", "m2", "z0"}, n \in 1..MaxInputs,
          dest \in Destinations :
          Start(ArithScript(command, x, y, z, n, dest), NoFiles)
    \/ \E outer \in {"IF", "FOR", "WHILE", "DEF_CREATE"},
          inner \in {"IF", "FOR", "WHILE", "DEF_CREATE"},
          mark \in {"none", "outer", "inner", "else", "inner_end", "outer_end"} :
          Start(CommentScript(outer, inner, mark), NoFiles)
    \/ \E order \in SectionOrders, nargs \in 0..1, nsaves \in 0..1 :
          Start(LoadScript("a", nargs, nsaves), [path \in {"m.cls"} |-> OrderedFile(order)])
    \/ \E save \in {"o", "x", "t", "fl"}, type \in {"int", "str"},
          body \in {"plain", "unbound", "IF", "WHILE"} :
          Start(OutputScript(save), [path \in {"m.cls"} |-> OutputFile(type, body)])
    \/ \E param \in {"s1", "u", "m1"} :
          Start(OutputScript("o"), [path \in {"m.cls"} |-> NestedCallFile(param)])
    \/ \E before \in {"", "f", "g"}, after \in {"", "f", "g"} :
          Start(ShadowScript(before, after), NoFiles)
    \/ \E first \in {"a", "t", "fl", "arr"}, dest \in {"r", "x", "fl", "t", "arr"},
          use \in {"none", "sum", "if", "while"} :
          Start(SaveScript(first, dest, use), NoFiles)
    \/ \E shape \in ModuleShapes, first_type \in {"int", "array"}, nin \in 0..MaxParams,
          nout \in 0..MaxParams, first \in FirstArguments, nargs \in 0..MaxArgs,
          nsaves \in 0..MaxParams + 1 :
          Start(LoadScript(first, nargs, nsaves),
                [path \in {"m.cls"} |-> ModuleFile(shape, first_type, nin, nout)])

Next ==
    \/ parse_line_error
    \/ VAR_statement
    \/ SUM_statement
    \/ SUBTRACT_statement
    \/ MULTIPLY_statement
    \/ DIVIDE_statement
    \/ MEM_RELEASE_statement
    \/ ARR_CREATE_statement
    \/ ARR_SET_DATA_statement
    \/ ARR_GET_DATA_statement
    \/ RETURN_statement
    \/ END_statement
    \/ ELSE_statement
    \/ execute_def_create
    \/ interpret_return
    \/ interpret_except
    \/ execute_if
    \/ execute_if_exit
    \/ execute_if_raise
    \/ execute_for
    \/ execute_for_test
    \/ execute_for_step
    \/ execute_for_raise
    \/ execute_while
    \/ execute_while_test
    \/ execute_while_except
    \/ execute_def_call
    \/ execute_def_call_return
    \/ execute_def_call_raise
    \/ execute_def_call_end
    \/ execute_load
    \/ execute_load_code
    \/ execute_load_outputs
    \/ execute_load_except

Spec == Init /\ [][Next]_vars

\* The scripts that are one counted loop.
ForInit ==
    \/ \E start \in 0..MaxEnd + 1, end \in 0..MaxEnd + 1, step \in {-2, -1, 1, 2},
          how \in {"literal", "variable"} :
          Start(ForScript(start, end, step, how), NoFiles)
    \/ \E which \in {"start", "end", "step"} : Start(WordForScript(which), NoFiles)
    \/ \E start \in 0..MaxEnd, end \in 0..MaxEnd : Start(ZeroStepScript(start, end), NoFiles)

\* The steps these scripts take; no other step of Next is ever enabled in
\* them.
ForNext ==
    \/ parse_line_error
    \/ VAR_statement
    \/ SUM_statement
    \/ execute_for
    \/ execute_for_test
    \/ execute_for_step
    \/ interpret_return

\* The interpreter is one sequential program: it runs on for as long as it
\* has a step to take.
ForSpec == ForInit /\ [][ForNext]_vars /\ WF_vars(ForNext)

(***************************************************************************)
(* Properties.                                                             *)
(***************************************************************************)
Range(seq) == {seq[k] : k \in 1..Len(seq)}

\* An activation of the given kind is open.
Open(kind) == \E k \in 1..Len(frames) : frames[k].kind = kind

\* The step ends the activation on top of the call stack.
Leaves(kind) == frames # <<>> /\ Top.kind = kind /\ Len(frames') = Len(frames) - 1

\* The names a line may bind, assign or release.
Targets(line) ==
    CASE line.op \in {"VAR", "MEM_RELEASE", "ARR_CREATE", "ARR_SET_DATA"} -> {line.name}
      [] line.op \in {"SUM", "SUBTRACT", "MULTIPLY", "DIVIDE"} -> {line.output}
      [] line.op \in {"ARR_GET_DATA", "DEF_CALL"} -> {line.save}
      [] line.op = "FOR" -> {IF line.var = "" THEN "i" ELSE line.var}
      [] OTHER -> {}

WrittenNames(code) == UNION {Targets(code[k]) : k \in 1..Len(code)}

\* C1: after any DEF --call hands control back to its caller (body ran to its
\* end, executed RETURN, or raised), the environment stack is exactly the
\* stack that existed just before the call.
C1_CallRestoresStack ==
    [][Leaves("call") => variables' = Top.base]_vars

\* The exception in flight is the signal of a RETURN executed inside an IF
\* nested in a FOR, or a FOR nested in an IF, directly in a function body.
ReturnFromNestedBlocks ==
    /\ exc.kind = "FunctionReturn"
    /\ Len(exc.nest) >= 3
    /\ SubSeq(exc.nest, Len(exc.nest) - 2, Len(exc.nest))
           \in {<<"call", "for", "if">>, <<"call", "if", "for">>}

\* C2: a RETURN inside IF-in-FOR (or FOR-in-IF) in a function body is never
\* turned into an error; it is caught only by the DEF --call, which then
\* completes with the stack as before the call and the returned value in the
\* --save destination.
C2_NestedReturnCaptured ==
    [][ReturnFromNestedBlocks =>
          /\ exc'.kind \in {"FunctionReturn", "none"}
          /\ exc'.kind = "none" =>
                /\ Top.kind = "call"
                /\ variables' = Top.base
                /\ LET id == get_variable(dicts', variables', Top.save)
                   IN  id # 0 /\ dicts'[id][Top.save].value = exc.value]_vars

\* C3: a RETURN executed while no function call is active ends the run with
\* the InterpreterError "RETURN outside function"; the return signal does not
\* escape interpret.
C3_ReturnOutsideFunction ==
    (/\ status = "failed"
     /\ exc.stmt = "RETURN"
     /\ exc.msg # "not defined for RETURN"
     /\ "call" \notin Range(exc.nest))
        => exc.kind = "InterpreterError" /\ exc.msg = "RETURN outside function"

\* interpret is at a DEF --call of a defined function whose arguments are all
\* bound.
AtCallOfDefined ==
    /\ AtLine("DEF_CALL")
    /\ LookupFunction(Top.local_functions, Top.lines[Top.i].name_def).found
    /\ \A k \in 1..Len(Top.lines[Top.i].inputs) :
           get_variable(dicts, variables, Top.lines[Top.i].inputs[k]) # 0

\* C4: DEF --call runs the body iff the number of --input arguments equals
\* the parameter count (zero included); on a mismatch it raises the
\* argument-count InterpreterError and pushes no scope.
C4_ArgumentCount ==
    [][AtCallOfDefined =>
          LET f == LookupFunction(Top.local_functions, Top.lines[Top.i].name_def).f
              nargs == Len(Top.lines[Top.i].inputs)
              entered == Len(frames') = Len(frames) + 2
          IN  /\ entered <=> (nargs = Len(f.parameters))
              /\ nargs # Len(f.parameters) =>
                    /\ exc'.kind = "InterpreterError" /\ exc'.msg = "argument count"
                    /\ variables' = variables /\ dicts' = dicts]_vars

\* C5: while a function whose body writes only to its parameters and its own
\* names runs, every variable passed as an argument keeps the value (list
\* contents included) it had at the call.
C5_ParametersByValue ==
    \A f \in 1..Len(frames) :
        (frames[f].kind = "call"
            /\ WrittenNames(frames[f].function.code) \cap frames[f].visible = {}) =>
        \A k \in 1..Len(frames[f].inputs) :
            /\ frames[f].inputs[k] \in DOMAIN dicts[frames[f].origin[k]]
            /\ Deep(heap, dicts[frames[f].origin[k]][frames[f].inputs[k]]) = frames[f].snap[k]

\* Some --input variable of the LOAD under execution is undefined, or its type
\* differs from the declared type of the module input at its position.
LoadInputBad ==
    LET line == Top.lines[Top.i]
        declared == parse_class_definition(files[line.path]).inputs
    IN  \E k \in 1..Len(line.inputs) :
            LET id == get_variable(dicts, variables, line.inputs[k])
            IN  \/ id = 0
                \/ k <= Len(declared) /\ dicts[id][line.inputs[k]].type # declared[k].type

\* C6: a LOAD with an undefined or wrongly typed --input variable fails with
\* an InterpreterError before any module code runs: no scope is pushed, and
\* no variable, list or function table changes.
C6_LoadInputsChecked ==
    [][(AtLine("LOAD") /\ LoadInputBad) =>
          /\ exc'.kind = "InterpreterError"
          /\ frames' = Popped
          /\ UNCHANGED <<variables, dicts, heap, functions, tables>>]_vars

\* A LOAD has failed on the type of an --input variable, with only the
\* global scope on the stack.
C6_Witness ==
    /\ status = "failed"
    /\ exc.stmt = "LOAD" /\ exc.msg = "input type mismatch"
    /\ variables = <<1>>

\* C7: when a LOAD succeeds, every variable of the caller's scopes other than
\* the --save destinations is bound as before the LOAD, with the same type
\* and value (list contents included).
C7_LoadTouchesOnlySaves ==
    [][(Running /\ Leaves("load") /\ exc'.kind = "none") =>
          \A k \in 1..Len(Top.base) :
              LET id == Top.base[k]
                  before == Top.before_dicts[id]
                  after == dicts'[id]
              IN  \A n \in ((DOMAIN before) \cup (DOMAIN after)) \ Range(Top.saves.items) :
                      /\ n \in DOMAIN before /\ n \in DOMAIN after
                      /\ Deep(heap', after[n]) = Deep(Top.before_heap, before[n])]_vars

\* C8: while a module is executed by LOAD, the global function table does not
\* change.
C8_ModuleFunctionsPrivate ==
    [][Open("load") => functions' = functions]_vars

\* C9: LOAD raises an InterpreterError when the number of --input arguments
\* differs from the declared input count or the number of --save destinations
\* from the declared output count, and with equal counts (zero included) it
\* is not rejected for a count.
C9_LoadCounts ==
    [][/\ AtLine("LOAD") =>
            LET line == Top.lines[Top.i]
                declared == parse_class_definition(files[line.path]).inputs
            IN  IF Len(line.inputs) # Len(declared)
                THEN exc'.kind = "InterpreterError"
                ELSE exc'.msg \notin {"input count", "len(None)"}
       /\ (Running /\ Top.kind = "load" /\ Top.phase = "code" /\ variables # <<>>) =>
            IF Len(Top.saves.items) # Len(Top.class_def.outputs)
            THEN exc'.kind = "InterpreterError"
            ELSE exc'.msg \notin {"output count", "len(None)"}]_vars

\* C10: ARR --get_data at an in-range index that no ARR --set_data has written
\* since the array was created raises the "no value" InterpreterError and
\* binds no variable.
C10_UnsetSlotHasNoValue ==
    [][(/\ AtLine("ARR_GET_DATA")
        /\ LET line == Top.lines[Top.i]
               id == get_variable(dicts, variables, line.name)
           IN  /\ id # 0
               /\ dicts[id][line.name].type = "array"
               /\ dicts[id][line.name].value.k = "list"
               /\ line.index < Len(heap[dicts[id][line.name].value.n])
               /\ line.index \notin written[dicts[id][line.name].value.n])
          => /\ exc'.kind = "InterpreterError" /\ exc'.msg = "no value"
             /\ dicts' = dicts]_vars

\* C11: the length of every list object stays the --max it was created with:
\* no step changes it, and ARR --set_data / --get_data at an index >= the
\* length of an existing array raise the out-of-range InterpreterError and
\* change no list and no variable, whatever was written before.
C11_ArrayLengthFixed ==
    [][/\ Len(heap') >= Len(heap)
       /\ \A k \in 1..Len(heap) : Len(heap'[k]) = Len(heap[k])
       /\ (AtLine("ARR_CREATE") /\ exc'.kind = "none") =>
             /\ Len(heap') = Len(heap) + 1
             /\ Len(heap'[Len(heap')]) = Top.lines[Top.i].max
       /\ \A op \in {"ARR_SET_DATA", "ARR_GET_DATA"} :
             (/\ AtLine(op)
              /\ LET line == Top.lines[Top.i]
                     id == get_variable(dicts, variables, line.name)
                     at == IF op = "ARR_SET_DATA" THEN line.pos ELSE line.index
                 IN  /\ id # 0
                     /\ dicts[id][line.name].type = "array"
                     /\ at >= Len(heap[dicts[id][line.name].value.n]))
                => /\ exc'.kind = "InterpreterError" /\ exc'.msg = "out of range"
                   /\ UNCHANGED <<variables, dicts, heap>>]_vars

\* An ARR --get_data past the end of an array has failed after a slot of the
\* array had been written.
C11_Witness ==
    /\ status = "failed"
    /\ exc.stmt = "ARR_GET_DATA" /\ exc.msg = "out of range"
    /\ \E k \in 1..Len(written) : written[k] # {}

\* The values a counted loop visits: start, start + step, ... while the value
\* has not passed end.
RECURSIVE ForValues(_, _, _)
ForValues(x, end, step) ==
    IF (step > 0 /\ x <= end) \/ (step < 0 /\ x >= end)
    THEN <<x>> \o ForValues(x + step, end, step)
    ELSE <<>>

\* The number a start / end / step word of a FOR line stands for: the value
\* of the int variable of that name, else the number written.
ForOperand(tok) ==
    LET id == get_variable(dicts, variables, tok.t)
    IN  IF id # 0 THEN dicts[id][tok.t].value ELSE IF tok.isInt THEN IntV(tok.n) ELSE NoneV

\* C12: a FOR over integers with step # 0 whose body does not write the loop
\* variable starts its loop, and when the loop ends the body has been run
\* once for each of start, start + step, ... not past end, in that order.
C12_ForVisits ==
    [][/\ (/\ AtText("FOR")
           /\ \A tok \in {Top.lines[Top.i].start, Top.lines[Top.i].end, Top.lines[Top.i].step} :
                  ForOperand(tok).k = "int"
           /\ ForOperand(Top.lines[Top.i].step).n # 0)
          => exc'.kind = "none" /\ Len(frames') = Len(frames) + 1
       /\ (/\ Running /\ Leaves("for") /\ exc'.kind = "none"
           /\ Top.start.k = "int" /\ Top.end.k = "int" /\ Top.step.k = "int"
           /\ Top.loop_var \notin WrittenNames(Top.block_commands))
          => Top.visited = [k \in 1..Len(ForValues(Top.start.n, Top.end.n, Top.step.n)) |->
                               IntV(ForValues(Top.start.n, Top.end.n, Top.step.n)[k])]]_vars

\* The sum and the product of val[k] over the indices k in S, in no order.
RECURSIVE SumOver(_, _)
SumOver(S, val) ==
    IF S = {} THEN 0
    ELSE LET k == CHOOSE j \in S : TRUE IN val[k] + SumOver(S \ {k}, val)

RECURSIVE ProdOver(_, _)
ProdOver(S, val) ==
    IF S = {} THEN 1
    ELSE LET k == CHOOSE j \in S : TRUE IN val[k] * ProdOver(S \ {k}, val)

\* The integer part of the fraction n / d (d # 0), toward zero.
TruncQ(n, d) ==
    LET a == IF n < 0 THEN -n ELSE n
        b == IF d < 0 THEN -d ELSE d
    IN  IF (n < 0) = (d < 0) THEN a \div b ELSE -(a \div b)

ArithOps == {"SUM", "SUBTRACT", "MULTIPLY", "DIVIDE"}

\* The values of the inputs of the arithmetic line under execution.
InputValue(k) ==
    LET name == Top.lines[Top.i].inputs[k]
    IN  dicts[get_variable(dicts, variables, name)][name].value

\* Every input of the arithmetic line is a bound int / float variable.
InputsNumeric ==
    \A k \in 1..Len(Top.lines[Top.i].inputs) :
        LET name == Top.lines[Top.i].inputs[k]
            id == get_variable(dicts, variables, name)
        IN  id # 0 /\ dicts[id][name].type \in {"int", "float"}

\* The destination of the arithmetic line is unbound, or an int / float variable.
OutputNumeric ==
    LET name == Top.lines[Top.i].output
        id == get_variable(dicts, variables, name)
    IN  id = 0 \/ dicts[id][name].type \in {"int", "float"}

\* C13: with >= 2 integer-valued int / float inputs (non-zero divisors for
\* DIVIDE) and a numeric or new destination, SUM stores the sum, MULTIPLY the
\* product (whatever the order of the inputs), SUBTRACT in1 - in2 - ... - inN
\* and DIVIDE in1 / in2 / ... / inN; an int destination gets the integer part
\* toward zero, a float destination the exact value.
C13_ArithmeticValues ==
    [][\A op \in ArithOps :
        (/\ AtLine(op)
         /\ Len(Top.lines[Top.i].inputs) >= 2
         /\ InputsNumeric /\ OutputNumeric
         /\ \A k \in 1..Len(Top.lines[Top.i].inputs) :
                /\ InputValue(k).k \in {"int", "float"} /\ InputValue(k).d = 1
                /\ (op = "DIVIDE" /\ k > 1) => InputValue(k).n # 0)
        => LET n == Len(Top.lines[Top.i].inputs)
               val == [k \in 1..n |-> InputValue(k).n]
               num == CASE op = "SUM" -> SumOver(1..n, val)
                        [] op = "MULTIPLY" -> ProdOver(1..n, val)
                        [] op = "SUBTRACT" -> val[1] - SumOver(2..n, val)
                        [] op = "DIVIDE" -> val[1]
               den == IF op = "DIVIDE" THEN ProdOver(2..n, val) ELSE 1
               name == Top.lines[Top.i].output
               id == get_variable(dicts', variables', name)
           IN  /\ exc'.kind = "none"
               /\ id # 0
               /\ LET out == dicts'[id][name]
                  IN  IF out.type = "int"
                      THEN out.value = IntV(TruncQ(num, den))
                      ELSE /\ out.type = "float" /\ out.value.k = "float"
                           /\ out.value.n * den = num * out.value.d]_vars

\* A DIVIDE of 7 by -2 has stored -3 in the int variable di.
C13_Witness ==
    /\ Running /\ Top.kind = "interpret" /\ Top.i - 1 \in DOMAIN Top.lines
    /\ Top.lines[Top.i - 1].op = "DIVIDE"
    /\ Top.lines[Top.i - 1].inputs = <<"n7", "m2">>
    /\ dicts[1]["di"].value = IntV(-3)

\* The DIVIDE line under execution has a bound int / float input after the
\* first whose value is zero; FirstZero is the position of the first one.
ZeroDivisors ==
    {k \in 2..Len(Top.lines[Top.i].inputs) :
        LET name == Top.lines[Top.i].inputs[k]
            id == get_variable(dicts, variables, name)
        IN  /\ id # 0 /\ dicts[id][name].type \in {"int", "float"}
            /\ dicts[id][name].value.n = 0}

FirstZero == CHOOSE k \in ZeroDivisors : \A j \in ZeroDivisors : k <= j

C15_ArithmeticOperands ==
    [][\A op \in ArithOps :
        AtLine(op) =>
          LET name == Top.lines[Top.i].output
              id == get_variable(dicts, variables, name)
          IN  /\ (~InputsNumeric \/ ~OutputNumeric) =>
                    /\ exc'.kind = "InterpreterError"
                    /\ UNCHANGED <<variables, dicts, heap>>
              /\ (exc'.kind = "none" /\ id # 0) =>
                    /\ get_variable(dicts', variables', name) = id
                    /\ dicts'[id][name].type = dicts[id][name].type
              /\ (exc'.kind = "none" /\ id = 0) =>
                    /\ get_variable(dicts', variables', name) = variables[Len(variables)]
                    /\ dicts'[variables[Len(variables)]][name].type = "int"]_vars

\* An arithmetic statement has bound the new int variable dn.
C15_Witness ==
    /\ Running /\ Top.kind = "interpret" /\ Top.i - 1 \in DOMAIN Top.lines
    /\ Top.lines[Top.i - 1].op \in ArithOps
    /\ "dn" \in DOMAIN dicts[1] /\ dicts[1]["dn"].type = "int"

\* C16: an IF whose condition evaluates runs the if-body when the condition
\* is true, else the else-body, and nothing when that else-body is absent or
\* empty; the branch runs in one scope pushed for it, and when the IF
\* completes normally the stack is the one the IF found, so no variable
\* declared in the branch is visible afterwards.
C16_IfOneBranchOwnScope ==
    [][/\ (AtLine("IF") /\ evaluate_condition(Top.lines[Top.i].condition).err = "") =>
            LET sc == ScanBlock(Top.lines, "IF", Top.i + 1, 1, <<>>)
                c == evaluate_condition(Top.lines[Top.i].condition).val
                branch == IF c THEN sc.block_commands ELSE sc.else_commands
            IN  IF c \/ sc.else_commands # <<>>
                THEN /\ Len(frames') = Len(frames) + 2
                     /\ frames'[Len(frames')].lines = branch
                     /\ Len(variables') = Len(variables) + 1
                     /\ dicts'[variables'[Len(variables')]] = EmptyDict
                ELSE Len(frames') = Len(frames) /\ UNCHANGED <<variables, dicts>>
       /\ (Running /\ Leaves("if") /\ exc'.kind = "none") => variables' = Top.entry]_vars

\* The name was bound by an earlier DEF --call --save of this script and
\* holds an integer.
SavedInteger(name) ==
    LET id == get_variable(dicts, variables, name)
    IN  /\ id # 0 /\ dicts[id][name].value.k = "int"
        /\ \E j \in 1..Top.i - 1 : Top.lines[j].op = "DEF_CALL" /\ Top.lines[j].save = name

\* Python can convert the value to the declared type int, float or str.
Coercible(type, v) ==
    \/ type = "str"
    \/ type \in {"int", "float"} /\ (IsNumber(v) \/ (v.k = "str" /\ v.d = 1))

\* C17: a DEF --call whose --save destination exists stores the return value
\* converted to the destination's declared type, or raises an
\* InterpreterError when the conversion fails or the type is not int / float
\* / str; a destination the call created from an integer return value is
\* afterwards accepted as an input of SUM / SUBTRACT / MULTIPLY / DIVIDE and
\* as an operand of an IF / WHILE condition.
C17_SaveDestination ==
    [][/\ (/\ Unwinding /\ Top.kind = "call" /\ exc.kind = "FunctionReturn"
           /\ Len(variables) >= 2
           /\ get_variable(dicts, PopScope(variables), Top.save) # 0)
          => LET id == get_variable(dicts, PopScope(variables), Top.save)
                 type == dicts[id][Top.save].type
             IN  IF Coercible(type, exc.value)
                 THEN /\ exc'.kind = "none"
                      /\ dicts'[id][Top.save] = Variable(type, Cast(type, exc.value).v)
                 ELSE type # "auto" => exc'.kind = "InterpreterError"
       /\ \A op \in ArithOps :
             (AtLine(op) /\ \E k \in 1..Len(Top.lines[Top.i].inputs) :
                                SavedInteger(Top.lines[Top.i].inputs[k]))
                => exc'.msg # "not a number"
       /\ (AtLine("IF") /\ SavedInteger(Top.lines[Top.i].condition.l.t))
             => exc'.kind = "none"
       /\ (Running /\ Top.kind = "while" /\ frames[Len(frames) - 1].kind = "interpret"
              /\ LET name == Top.condition.l.t
                     id == get_variable(dicts, variables, name)
                 IN  id # 0 /\ dicts[id][name].type = "auto" /\ dicts[id][name].value.k = "int")
             => exc'.kind = "none"]_vars

(***************************************************************************)
(* C18: every InterpreterError carries the 1-based line number of the      *)
(* statement that triggered it, and enclosing frames leave that tag alone. *)
(* Stated on the steps of a run: (a) an error raised by a statement of the *)
(* script's own text, with no block, function or module open, is tagged    *)
(* with exactly the line of that statement; (b) while an InterpreterError  *)
(* travels outward through the enclosing frames its tags do not change;    *)
(* (c) the error that ends the run carries exactly one tag.                *)
(***************************************************************************)
C18_ErrorLineTag ==
    [][ /\ (Running /\ Len(frames) = 1 /\ exc'.kind = "InterpreterError")
              => exc'.tags = <<Top.i>>
        /\ (Unwinding /\ exc.kind = "InterpreterError" /\ exc'.kind = "InterpreterError")
              => exc'.tags = exc.tags
        /\ (status' = "failed" /\ exc'.kind = "InterpreterError")
              => Len(exc'.tags) = 1 ]_vars

(***************************************************************************)
(* C19: when a RETURN signal leaves the body of a WHILE that stands in a   *)
(* function, execute_while removes just the scope it pushed: at the step   *)
(* on which the signal passes out of execute_while, the stack is as deep   *)
(* as it was when the WHILE was entered.                                   *)
(***************************************************************************)
C19_WhileReturnPopsOnce ==
    [][ (Leaves("while") /\ exc.kind = "FunctionReturn" /\ Popped[Len(Popped)].in_function)
           => Len(variables') = Len(Top.entry) ]_vars

(***************************************************************************)
(* C20: execute_for pops the scope it pushed exactly once, when the loop   *)
(* ends because its condition became false and when a RETURN signal        *)
(* unwinds out of the loop body: the step on which execute_for exits, in   *)
(* either way, takes one scope off the stack.                              *)
(***************************************************************************)
C20_ForPopsOnce ==
    [][ (Leaves("for") /\ exc'.kind \in {"none", "FunctionReturn"})
           => Len(variables') = Len(variables) - 1 ]_vars

(***************************************************************************)
(* C21: a hard error raised inside a FOR, an IF/ELSE branch, a WHILE, a    *)
(* function call or a module execution reaches the top-level caller with   *)
(* every scope pushed since popped again: at the step on which the error   *)
(* leaves the outermost open block, call or LOAD, the stack is the stack   *)
(* that existed when that block, call or LOAD started.                     *)
(***************************************************************************)
StackAtEntry(frame) == IF frame.kind \in {"call", "load"} THEN frame.base ELSE frame.entry

C21_ErrorPopsScopes ==
    [][ (Unwinding /\ exc.kind = "InterpreterError" /\ Len(frames) = 2
            /\ Top.kind # "interpret" /\ Len(frames') = 1)
           => variables' = StackAtEntry(Top) ]_vars

(***************************************************************************)
(* C22: in a properly nested line stream the body collected for a FOR, IF, *)
(* WHILE or DEF --create is exactly the lines between the opener and its   *)
(* matching END, the END that takes a nesting counter started at 1 down to *)
(* 0: nested openers and their ENDs are in the body, the matching END is   *)
(* not.  For IF, an ELSE at depth 1 splits those lines into if-body and    *)
(* else-body, and an ELSE at a deeper nesting stays in the body it stands  *)
(* in.  Execution resumes at the line behind the matching END.             *)
(***************************************************************************)
Openers == {"FOR", "IF", "WHILE", "DEF_CREATE"}

\* The nesting depth behind line k, for the opener at line i.
DepthAfter(lines, i, k) ==
    1 + Cardinality({m \in (i + 1)..k : lines[m].op \in Openers})
      - Cardinality({m \in (i + 1)..k : lines[m].op = "END"})

Closes(lines, i, j) ==
    /\ j \in (i + 1)..Len(lines)
    /\ lines[j].op = "END"
    /\ DepthAfter(lines, i, j) = 0
    /\ \A m \in (i + 1)..(j - 1) : DepthAfter(lines, i, m) >= 1

MatchingEnd(lines, i) == CHOOSE j \in (i + 1)..Len(lines) : Closes(lines, i, j)

\* What the scan is to deliver for the opener at line i.
Delimited(lines, i) ==
    LET j == MatchingEnd(lines, i)
        split == {e \in (i + 1)..(j - 1) :
                     lines[e].op = "ELSE" /\ DepthAfter(lines, i, e) = 1}
    IN  IF lines[i].op = "IF" /\ split # {}
        THEN LET e == CHOOSE e \in split : \A o \in split : e <= o
             IN  [block_commands |-> SubSeq(lines, i + 1, e - 1),
                  else_commands |-> SubSeq(lines, e + 1, j - 1), i |-> j]
        ELSE [block_commands |-> SubSeq(lines, i + 1, j - 1), else_commands |-> <<>>, i |-> j]

C22_BlockCollection ==
    [][ /\ ((\E op \in Openers : AtLine(op))
              /\ (\E j \in 1..Len(Top.lines) : Closes(Top.lines, Top.i, j)))
           => LET op == Top.lines[Top.i].op
                  want == Delimited(Top.lines, Top.i)
                  caller == Len(frames)
              IN  /\ ScanBlock(Top.lines, op, Top.i + 1, 1, <<>>) = want
                  /\ Len(frames') > caller
                        => /\ frames'[caller].i = want.i
                           /\ op \in {"FOR", "WHILE"}
                                 => frames'[caller + 1].block_commands = want.block_commands
                           /\ op = "IF"
                                 => frames'[caller + 2].lines
                                       \in {want.block_commands, want.else_commands}
                  /\ op = "DEF_CREATE"
                        => /\ frames'[caller].i = want.i + 1
                           /\ (IF Top.local_functions # 0 THEN tables'[Top.local_functions]
                               ELSE functions')[CurArgs.name_def].code = want.block_commands
        /\ ((\E kind \in {"for", "if", "while"} : Leaves(kind)) /\ exc'.kind = "none")
           => LET caller == Popped[Len(Popped)]
              IN  /\ caller.lines[caller.i].op = "END"
                  /\ frames'[Len(frames')].i = caller.i + 1 ]_vars

(***************************************************************************)
(* C30: the block scan and parse_line agree on the lines that open or     *)
(* close a block.  Every line of a running text that parse_line, which     *)
(* strips a trailing comment, reads as FOR, IF, WHILE, DEF --create or END *)
(* is counted as an opener or closer by the scan; and at every opener the  *)
(* scan ends at the same line, with bodies of the same length, as it does  *)
(* on the same text without the trailing comments.                         *)
(***************************************************************************)
Uncommented(lines) == [m \in 1..Len(lines) |-> Strip(lines[m])]

C30_ScanAgreesWithParser ==
    \A k \in 1..Len(frames) :
        frames[k].kind = "interpret" =>
            LET lines == frames[k].lines
            IN  /\ \A m \in 1..Len(lines) :
                      Matches(lines[m]) =>
                          /\ parse_line(lines[m]).op \in Openers => MatchesOpener(lines[m])
                          /\ parse_line(lines[m]).op = "END" => MatchesEnd(lines[m])
                /\ \A i \in 1..Len(lines) :
                      (lines[i].op \in Openers /\ Matches(lines[i])) =>
                          LET with == ScanBlock(lines, lines[i].op, i + 1, 1, <<>>)
                              without == ScanBlock(Uncommented(lines), lines[i].op, i + 1, 1, <<>>)
                          IN  /\ with.i = without.i
                              /\ Len(with.block_commands) = Len(without.block_commands)
                              /\ Len(with.else_commands) = Len(without.else_commands)

(***************************************************************************)
(* C23: FOR pushes a fresh scope for each iteration, so that a variable    *)
(* declared by VAR, or created as an arithmetic --output, in the body in   *)
(* one iteration is not visible in a later one: when the body of a later   *)
(* iteration starts, the innermost scope holds the loop variable only.     *)
(***************************************************************************)
C23_ForFreshScopePerIteration ==
    [][ (Running /\ Top.kind = "for" /\ Top.pc = "test" /\ Top.visited # <<>>
            /\ Len(frames') > Len(frames))
           => DOMAIN dicts[variables[Len(variables)]] = {Top.loop_var} ]_vars

(***************************************************************************)
(* C23 as amended: FOR pushes one scope for the whole loop.  The steps of  *)
(* execute_for that carry the loop on (the increment of the loop variable, *)
(* the test, the start of the next body) leave the stack as it is and      *)
(* every variable other than the loop variable bound as it was, so what    *)
(* the body declared in one iteration is still visible in the next.        *)
(***************************************************************************)
C23_ForOneScope ==
    [][ (Running /\ Top.kind = "for" /\ Len(frames') >= Len(frames))
           => /\ variables' = variables
              /\ \A k \in 1..Len(variables) :
                    \A name \in DOMAIN dicts[variables[k]] \ {Top.loop_var} :
                        /\ name \in DOMAIN dicts'[variables[k]]
                        /\ dicts'[variables[k]][name] = dicts[variables[k]][name] ]_vars

\* The body of a second iteration is running, and the innermost scope still
\* holds w, which the first iteration created as a --output.
C23_Witness ==
    /\ Running /\ Len(frames) >= 2
    /\ frames[Len(frames) - 1].kind = "for"
    /\ Len(frames[Len(frames) - 1].visited) = 2
    /\ variables # <<>>
    /\ {"w", frames[Len(frames) - 1].loop_var} \subseteq DOMAIN dicts[variables[Len(variables)]]

(***************************************************************************)
(* C24: WHILE evaluates its condition before every iteration, the body     *)
(* runs only when it is true, and all iterations run in one scope pushed   *)
(* once: entering the loop pushes one scope, the steps that carry the loop *)
(* on leave the stack and every binding as they are (what the body         *)
(* declared stays visible to later iterations and condition evaluations),  *)
(* and when the loop ends normally the stack is the stack of before the    *)
(* WHILE, so what the body declared is gone.                               *)
(***************************************************************************)
C24_WhileOneScope ==
    [][ /\ AtLine("WHILE")
           => /\ Len(variables') = Len(variables) + 1
              /\ dicts'[variables'[Len(variables')]] = EmptyDict
        /\ (Running /\ Top.kind = "while")
           => LET c == evaluate_condition(Top.condition)
              IN  /\ Len(frames') > Len(frames) <=> (c.err = "" /\ c.val)
                  /\ Len(frames') > Len(frames) => variables' = variables /\ dicts' = dicts
                  /\ (Len(frames') < Len(frames) /\ exc'.kind = "none")
                        => variables' = Top.entry ]_vars

(***************************************************************************)
(* C25: lookup returns the binding of the innermost scope that holds the   *)
(* name, and a VAR executed inside a pushed scope (a block, a call or a    *)
(* module) writes to the innermost scope only: it binds the name there,    *)
(* leaves the stack alone and changes no scope that was on the stack when  *)
(* an enclosing block, call or module started, so that an outer variable   *)
(* of the same name keeps its type and value.                              *)
(***************************************************************************)
BoundNames == UNION {DOMAIN dicts[id] : id \in DOMAIN dicts}

Innermost(name) ==
    LET holds == {k \in 1..Len(variables) : name \in DOMAIN dicts[variables[k]]}
    IN  IF holds = {} THEN 0
        ELSE variables[CHOOSE k \in holds : \A o \in holds : o <= k]

C25_VarWritesInnermost ==
    [][ /\ \A name \in BoundNames : get_variable(dicts, variables, name) = Innermost(name)
        /\ (AtLine("VAR") /\ exc'.kind = "none")
           => /\ variables' = variables
              /\ CurArgs.name \in DOMAIN dicts'[variables[Len(variables)]]
              /\ \A id \in DOMAIN dicts : id # variables[Len(variables)] => dicts'[id] = dicts[id]
              /\ \A k \in 1..Len(frames) :
                    frames[k].kind # "interpret"
                       => \A id \in Range(StackAtEntry(frames[k])) : dicts'[id] = dicts[id] ]_vars

(***************************************************************************)
(* C26: in whatever order the IN, LIB, ENV CAL and OUT sections stand      *)
(* before the end marker, parse_class_definition yields as inputs the      *)
(* declarations under `IN :`, as outputs those under OUT, as library code  *)
(* the lines under LIB and as main body the lines under ENV CAL, a section *)
(* being the lines from its header to the next header or the end marker.   *)
(* Stated of the class definition a LOAD is about to use and of the one    *)
(* every running LOAD holds.                                               *)
(***************************************************************************)
IsSentinel(line) == line.op \in Sections \/ line.op = "END name"

SectionLines(content, header) ==
    LET heads == {i \in 1..Len(content) : content[i].op = header}
    IN  IF heads = {} THEN <<>>
        ELSE LET h == CHOOSE i \in heads : \A o \in heads : i <= o
                 stops == {j \in (h + 1)..Len(content) : IsSentinel(content[j])}
                 e == IF stops = {} THEN Len(content) + 1
                      ELSE CHOOSE j \in stops : \A o \in stops : j <= o
             IN  SubSeq(content, h + 1, e - 1)

RECURSIVE Declared(_)
Declared(lines) ==
    IF lines = <<>> THEN <<>>
    ELSE (IF Head(lines).op = "_type:" THEN Declarations(Head(lines)) ELSE <<>>)
         \o Declared(Tail(lines))

AsWritten(class_def, content) ==
    /\ class_def.inputs = Declared(SectionLines(content, "IN :"))
    /\ class_def.outputs = Declared(SectionLines(content, "OUT"))
    /\ class_def.lib_code = SectionLines(content, "LIB")
    /\ class_def.code = SectionLines(content, "ENV CAL")

C26_SectionsInAnyOrder ==
    /\ (AtLine("LOAD") /\ CurArgs.path \in DOMAIN files)
          => AsWritten(parse_class_definition(files[CurArgs.path]), files[CurArgs.path])
    /\ \A k \in 1..Len(frames) :
          frames[k].kind = "load" => AsWritten(frames[k].class_def, files["m.cls"])

(***************************************************************************)
(* C27: LOAD maps the declared outputs after the module scope has been     *)
(* popped, so on the caller's stack as it was at the LOAD.  If an output's *)
(* internal variable is not bound in the module's own scope, or its --save *)
(* name resolves to a caller variable of another type than the declared    *)
(* one, LOAD fails and that caller variable is as it was.  Otherwise every *)
(* --save name that resolves to a caller variable has that variable's      *)
(* value overwritten and its type kept, and every other --save name is     *)
(* bound, in the caller's innermost scope, to a new variable of the        *)
(* declared output type with the output's value.                           *)
(***************************************************************************)
C27_OutputMapping ==
    [][ (Running /\ Top.kind = "load" /\ Top.phase = "code" /\ ~Top.saves.isNone
            /\ Len(Top.saves.items) = Len(Top.class_def.outputs))
           => LET outputs == Top.class_def.outputs
                  saves == Top.saves.items
                  scope == dicts[Top.class_scope]
                  caller == Top.base
                  at(k) == get_variable(dicts, caller, saves[k])
                  unbound(k) == outputs[k].name \notin DOMAIN scope
                  mismatch(k) == at(k) # 0 /\ dicts[at(k)][saves[k]].type # outputs[k].type
              IN  /\ variables' = caller
                  /\ IF \E k \in 1..Len(outputs) : unbound(k) \/ mismatch(k)
                     THEN /\ exc'.kind = "InterpreterError"
                          /\ \A k \in 1..Len(outputs) :
                                mismatch(k)
                                   => dicts'[at(k)][saves[k]] = dicts[at(k)][saves[k]]
                     ELSE /\ exc'.kind = "none"
                          /\ \A k \in 1..Len(outputs) :
                                LET value == scope[outputs[k].name].value
                                    top == caller[Len(caller)]
                                IN  IF at(k) # 0
                                    THEN dicts'[at(k)][saves[k]] =
                                            [dicts[at(k)][saves[k]] EXCEPT !.value = value]
                                    ELSE /\ saves[k] \in DOMAIN dicts'[top]
                                         /\ dicts'[top][saves[k]] =
                                               Variable(outputs[k].type, value) ]_vars

(***************************************************************************)
(* C28: the environment stack is never empty and its bottom element is    *)
(* always the global scope, the one scope on the stack when the run        *)
(* begins: no statement pops it, and the stack is never shorter than       *)
(* before the outermost statement began.                                   *)
(***************************************************************************)
C28_GlobalScopeKept ==
    /\ variables # <<>>
    /\ variables[1] = 1

(***************************************************************************)
(* C29: a run that fails fails with an InterpreterError; no other kind of  *)
(* failure leaves interpret().                                             *)
(***************************************************************************)
C29_OnlyInterpreterError ==
    status = "failed" => exc.kind = "InterpreterError"

(***************************************************************************)
(* C31: a DEF --call executed inside a module execution binds each         *)
(* parameter to a copy of the innermost binding of the argument name on    *)
(* the environment stack; a binding of that name in the module's scope     *)
(* does not take precedence over a more deeply nested one.                 *)
(***************************************************************************)
C31_ArgumentsInnermost ==
    [][ (AtLine("DEF_CALL") /\ Top.class_scope # 0
            /\ exc'.kind = "none" /\ Len(frames') > Len(frames))
           => LET inputs == CurArgs.inputs.items
                  parameters == LookupFunction(Top.local_functions, CurArgs.name_def).f.parameters
                  local_scope == dicts'[variables'[Len(variables')]]
              IN  \A k \in 1..Len(inputs) :
                     LET id == get_variable(dicts, variables, inputs[k])
                     IN  id # 0 => local_scope[parameters[k]] =
                                      ParameterCopy(dicts[id][inputs[k]]) ]_vars

\* Some activation of execute_for is on the call stack.
ForActive == \E k \in DOMAIN frames : frames[k].kind = "for"

\* Some activation of execute_for has step 0 and a start not below its end.
ZeroStepFromEnd ==
    \E k \in DOMAIN frames :
        /\ frames[k].kind = "for"
        /\ IsNumber(frames[k].start) /\ IsNumber(frames[k].end)
        /\ NumEq(frames[k].step, IntV(0))
        /\ ~NumLess(frames[k].start, frames[k].end)

(***************************************************************************)
(* C32 as claimed: a FOR loop whose body ends and leaves the loop variable *)
(* alone ends, whatever the integers start, end and step are, step = 0     *)
(* included.                                                               *)
(***************************************************************************)
C32_ForTerminates == ForActive ~> ~ForActive

(***************************************************************************)
(* C32: a FOR loop whose body ends and leaves the loop variable alone      *)
(* ends, whatever the integers start, end and step are, unless step = 0    *)
(* and start >= end.                                                       *)
(***************************************************************************)
C32_ForTerminatesUnlessZeroStep == (ForActive /\ ~ZeroStepFromEnd) ~> ~ForActive

\* A loop with step 0 and start below end has ended without an iteration.
C32_Witness ==
    /\ status = "done"
    /\ frames = <<>>
    /\ "fin" \in DOMAIN dicts[1] /\ DOMAIN dicts[1] = {"fin"}
    /\ Len(dicts) = 2 /\ DOMAIN dicts[2] = {"k"}

====
